---- MODULE Spec2Model ----
(***************************************************************************)
(* Staging loader of DTWH_V2: incremental ingest-and-versioning engine.    *)
(*                                                                         *)
(* The repository holds several iterations of the loader.  Each one is a   *)
(* specification of its own over the same logical tables:                  *)
(*   Spec     etl_processor_scd2.py, run by main_job.job (autocommit)      *)
(*   SpecV1   etl_processor.py (commit per raw record)                     *)
(*   SpecUM   db.py UpsertManager (batch identity sets)                    *)
(*   SpecRaw  db.py RawJsonManager (raw ingest gate)                       *)
(*   SpecLoadRaw  loader.py load_raw (raw files into RawJson)              *)
(*   SpecLog  db.py LoadLogManager and log_operation (load auditor)        *)
(*   SpecTransform  transformer.py transform_batch                         *)
(*   SpecExtract  the extraction of one item by each extractor             *)
(*   SpecItems  the versioning pass and the transformer                    *)
(*   SpecCal  the loads of the calendar                                    *)
(*   SpecEnsure  ensure_date_dim.py ensure_date_dim_ready                  *)
(*   SpecWriters  the versioning pass and the upserts of UpsertManager     *)
(*   SpecVersioners  the three upserts of a Video on the same input        *)
(*   SpecInc  loader.py compare_and_load_incremental                       *)
(*   SpecPoll  app.py start_polling, which triggers main_job.job           *)
(*   SpecAll  either processor, Spec or SpecV1                             *)
(***************************************************************************)
EXTENDS Integers, Sequences, FiniteSets, TLC

VARIABLES
    impl,           \* the iteration of the loader that runs: "scd2", "v1", "um", "raw", "inc"
    today,          \* the calendar day of the wall clock (date.today())
    DateDim,        \* days that have a DateDim row; the row of day d has date_sk d
    Authors,        \* rows of table Authors
    Videos,         \* rows of table Videos
    Interactions,   \* rows of table VideoInteractions
    Committed,      \* the three tables as of the last commit
    extract_date_sk, \* the date key a pass of etl_processor.py took at its start
    cache,          \* the identity sets a batch holds in memory
    arg,            \* the last call of a manager of db.py: its arguments and its number
    RawJson,        \* rows of table RawJson, in id order
    pc,             \* position of the running pass
    queue,          \* raw records fetched by the pass and not yet handled
    results,        \* outcomes of the last handled record
    stats,          \* per-table outcome counters of the processor
    nfail,          \* number of raised steps so far
    cur,            \* id of the raw record handled last with no step raising, or 0
    changeDays,     \* per author: days on which a pass saw a tracked change
    lastToday,      \* per author: the tracked values a pass submitted last on this day
    differed,       \* per author: two passes of this day submitted differing values
    LoadLog,        \* rows of table LoadLog written by the last run, in order
    report,         \* the final counts the last run logged, empty if it logged none
    processed_records, \* counter of the processor: records taken through
    error_records,  \* counter of etl_processor.py: records given up
    control_log,    \* rows of metadata_tiktok.control_log, in id order
    storage         \* per file name of the storage directory: what the file holds

vars == <<impl, today, DateDim, Authors, Videos, Interactions, Committed,
          extract_date_sk, cache, arg, RawJson, pc, queue, results, stats, nfail, cur, changeDays,
          lastToday, differed, LoadLog, report, processed_records, error_records,
          control_log, storage>>

----------------------------------------------------------------------------
(* Bounds of the model *)

MaxDay == 2
MaxRaw == 2
MaxFail == 1

Days == 1..MaxDay
None == "None"

\* the names of the crawl files of the model
CrawlFiles == <<"f1.json", "f2.json">>
FileNames == {CrawlFiles[i] : i \in 1..Len(CrawlFiles)}

AuthorIds == {"a1", "a2"}
VideoIds == {"v1"}

\* the five counters: DiggCount, PlayCount, ShareCount, CommentCount, CollectCount
BaseCounts == <<10, 100, 1, 1, 1>>
Bump(c, i) == [c EXCEPT ![i] = c[i] + 5]

\* a crawled item: id, authorMeta (id, nickName, avatar), text, duration,
\* createTime, webVideoUrl and the five counters; None: the field is absent
BaseItem ==
    [id |-> "v1", aid |-> "a1", nick |-> "n1", avatar |-> "av1", text |-> "t1",
     dur |-> 10, ctime |-> "c1", url |-> "u1", cnt |-> BaseCounts]

\* the items of the model: the base item and the items that differ from it in one field
Items ==
    {BaseItem,
     [BaseItem EXCEPT !.id = None], [BaseItem EXCEPT !.aid = None],
     [BaseItem EXCEPT !.aid = "a2"], [BaseItem EXCEPT !.nick = "n2"],
     [BaseItem EXCEPT !.avatar = "av2"], [BaseItem EXCEPT !.text = "t2"],
     [BaseItem EXCEPT !.url = "u2"], [BaseItem EXCEPT !.cnt = Bump(BaseCounts, 1)]}

Outcomes == {"INSERT", "UPDATE", "NO_CHANGE", "ERROR"}

\* an optional value is the empty set or a singleton
The(S) == CHOOSE x \in S : TRUE

----------------------------------------------------------------------------
(* etl_processor_scd2.py *)

\* int(today_str.replace('-', '')): the YYYYMMDD number of a day
YYYYMMDD(d) == 20260100 + d

get_date_sk_for_today(dim, day) == IF day \in dim THEN day ELSE YYYYMMDD(day)

\* LEFT JOIN DateDim d ON ... = d.date_sk: the full_date of a key, empty without a row
full_date(dim, sk) == IF sk \in dim THEN {sk} ELSE {}

\* values of the author id of an item besides an id and None (no authorMeta at all):
\* Null, "id": null in authorMeta; NoId, an authorMeta without the key "id"
Null == "null"
NoId == "no id"

\* a duration or counter that int() does not parse
Bad == -1

Unparsable(it) == it.dur = Bad \/ \E j \in 1..Len(it.cnt) : it.cnt[j] = Bad

\* int(author_data.get('id', 0)): 0 without the key; int(None) raises, caught: None
extract_author_data(it) ==
    IF it.aid \in {None, Null} THEN {}
    ELSE {[authorID |-> IF it.aid = NoId THEN "0" ELSE it.aid, Name |-> it.nick,
           avatar |-> it.avatar]}

\* any int() that raises is caught by except Exception: None
extract_video_data(it) ==
    IF it.id = None \/ it.aid = Null \/ it.dur = Bad THEN {}
    ELSE {[videoID |-> it.id, authorID |-> IF it.aid \in {None, NoId} THEN "0" ELSE it.aid,
           TextContent |-> it.text, Duration |-> it.dur, CreateTime |-> it.ctime,
           WebVideoUrl |-> it.url]}

extract_interaction_data(it) ==
    IF it.id = None \/ (\E j \in 1..Len(it.cnt) : it.cnt[j] = Bad) THEN {}
    ELSE {[videoID |-> it.id, cnt |-> it.cnt]}

\* ORDER BY a.extract_date_sk DESC LIMIT 1
LatestAuthor(A, id) ==
    LET rows == {r \in A : r.authorID = id}
    IN  {r \in rows : \A q \in rows : q.extract_date_sk <= r.extract_date_sk}

AuthorRow(ad, sk) ==
    [authorID |-> ad.authorID, Name |-> ad.Name, avatar |-> ad.avatar,
     extract_date_sk |-> sk]

\* INSERT INTO Authors: the key of a row is (authorID, extract_date_sk)
InsertAuthor(A, ad, sk) ==
    IF \E r \in A : r.authorID = ad.authorID /\ r.extract_date_sk = sk
    THEN [rows |-> A, out |-> "ERROR"]
    ELSE [rows |-> A \cup {AuthorRow(ad, sk)}, out |-> "INSERT"]

\* an author upsert whose failed statement leaves its row behind
upsert_author_scd2_leaky(A, dim, day, ad, fail) ==
    [rows |-> A \cup {AuthorRow(ad, get_date_sk_for_today(dim, day))},
     out |-> IF fail THEN "ERROR" ELSE "INSERT"]

upsert_author_scd2(A, dim, day, ad, fail) ==
    LET today_sk == get_date_sk_for_today(dim, day)
        found == LatestAuthor(A, ad.authorID)
    IN  IF fail THEN [rows |-> A, out |-> "ERROR"]
        ELSE IF found # {} /\ full_date(dim, The(found).extract_date_sk) # {}
        THEN LET existing == The(found)
                 data_changed == existing.Name # ad.Name \/ existing.avatar # ad.avatar
             IN  IF full_date(dim, existing.extract_date_sk) = {day}
                 THEN IF data_changed
                      THEN [rows |-> (A \ {existing})
                                     \cup {AuthorRow(ad, existing.extract_date_sk)},
                            out |-> "UPDATE"]
                      ELSE [rows |-> A, out |-> "NO_CHANGE"]
                 ELSE IF data_changed
                      THEN InsertAuthor(A, ad, today_sk)
                      ELSE [rows |-> A, out |-> "NO_CHANGE"]
        ELSE InsertAuthor(A, ad, today_sk)

VideoRow(vd, sk) ==
    [videoID |-> vd.videoID, authorID |-> vd.authorID, TextContent |-> vd.TextContent,
     Duration |-> vd.Duration, CreateTime |-> vd.CreateTime,
     WebVideoUrl |-> vd.WebVideoUrl, create_date_sk |-> sk]

\* SELECT ... WHERE videoID = %s LIMIT 1
ExistingRow(T, id) == {r \in T : r.videoID = id}

\* a video upsert that also takes a row of an earlier day for changed
upsert_video_scd2_dated(V, dim, day, vd, fail) ==
    LET today_sk == get_date_sk_for_today(dim, day)
        found == ExistingRow(V, vd.videoID)
    IN  IF fail THEN [rows |-> V, out |-> "ERROR"]
        ELSE IF found # {}
        THEN IF VideoRow(vd, today_sk) # The(found)
             THEN [rows |-> (V \ found) \cup {VideoRow(vd, today_sk)}, out |-> "UPDATE"]
             ELSE [rows |-> V, out |-> "NO_CHANGE"]
        ELSE [rows |-> V \cup {VideoRow(vd, today_sk)}, out |-> "INSERT"]

upsert_video_scd2(V, dim, day, vd, fail) ==
    LET today_sk == get_date_sk_for_today(dim, day)
        found == ExistingRow(V, vd.videoID)
    IN  IF fail THEN [rows |-> V, out |-> "ERROR"]
        ELSE IF found # {}
        THEN LET existing == The(found)
                 data_changed ==
                     \/ existing.authorID # vd.authorID
                     \/ existing.TextContent # vd.TextContent
                     \/ existing.Duration # vd.Duration
                     \/ existing.CreateTime # vd.CreateTime
                     \/ existing.WebVideoUrl # vd.WebVideoUrl
             IN  IF data_changed
                 THEN [rows |-> (V \ found) \cup {VideoRow(vd, today_sk)},
                       out |-> "UPDATE"]
                 ELSE [rows |-> V, out |-> "NO_CHANGE"]
        ELSE [rows |-> V \cup {VideoRow(vd, today_sk)}, out |-> "INSERT"]

InteractionRow(idt, sk) ==
    [videoID |-> idt.videoID, cnt |-> idt.cnt, interaction_date_sk |-> sk]

\* an interaction upsert that versions a changed row as the author upsert does
upsert_interaction_scd2_versioned(I, dim, day, idt, fail) ==
    LET today_sk == get_date_sk_for_today(dim, day)
        found == ExistingRow(I, idt.videoID)
    IN  IF fail THEN [rows |-> I, out |-> "ERROR"]
        ELSE IF found # {}
        THEN IF \E existing \in found : \E i \in 1..5 : existing.cnt[i] # idt.cnt[i]
             THEN [rows |-> I \cup {InteractionRow(idt, today_sk)}, out |-> "UPDATE"]
             ELSE [rows |-> I, out |-> "NO_CHANGE"]
        ELSE [rows |-> I \cup {InteractionRow(idt, today_sk)}, out |-> "INSERT"]

upsert_interaction_scd2(I, dim, day, idt, fail) ==
    LET today_sk == get_date_sk_for_today(dim, day)
        found == ExistingRow(I, idt.videoID)
    IN  IF fail THEN [rows |-> I, out |-> "ERROR"]
        ELSE IF found # {}
        THEN LET existing == The(found)
                 data_changed == \E i \in 1..5 : existing.cnt[i] # idt.cnt[i]
             IN  IF data_changed
                 THEN [rows |-> (I \ found) \cup {InteractionRow(idt, today_sk)},
                       out |-> "UPDATE"]
                 ELSE [rows |-> I, out |-> "NO_CHANGE"]
        ELSE [rows |-> I \cup {InteractionRow(idt, today_sk)}, out |-> "INSERT"]

Tables == {"authors", "videos", "interactions"}
ZeroStats == [t \in Tables |-> [o \in Outcomes |-> 0]]

Count(st, t, out) == IF out = None THEN st ELSE [st EXCEPT ![t][out] = @ + 1]

NoResults == [author |-> None, video |-> None, interaction |-> None, error |-> FALSE]

\* the steps of handling one raw record that may raise
FailSteps == {"date", "author", "video", "interaction", "status"}
FailModes == {{}} \cup {{f} : f \in FailSteps} \cup {{"author", "video", "interaction"}}

\* process_json_record were it to give up an item at the first absent candidate
process_json_record_chained(A, V, I, dim, day, it, f) ==
    LET ad == extract_author_data(it)
        vd == extract_video_data(it)
        idt == extract_interaction_data(it)
        ra == IF ad = {} THEN [rows |-> A, out |-> None]
              ELSE upsert_author_scd2(A, dim, day, The(ad), "author" \in f)
        rv == IF vd = {} \/ ad = {} THEN [rows |-> V, out |-> None]
              ELSE upsert_video_scd2(V, dim, day, The(vd), "video" \in f)
        ri == IF idt = {} \/ vd = {} \/ ad = {} THEN [rows |-> I, out |-> None]
              ELSE upsert_interaction_scd2(I, dim, day, The(idt), "interaction" \in f)
    IN  IF "date" \in f
        THEN [A |-> A, V |-> V, I |-> I, res |-> [NoResults EXCEPT !.error = TRUE]]
        ELSE [A |-> ra.rows, V |-> rv.rows, I |-> ri.rows,
              res |-> [author |-> ra.out, video |-> rv.out, interaction |-> ri.out,
                       error |-> FALSE]]

\* the effect of process_json_record on the three tables, with its results;
\* f: the steps that raise
process_json_record(A, V, I, dim, day, it, f) ==
    LET ad == extract_author_data(it)
        vd == extract_video_data(it)
        idt == extract_interaction_data(it)
        ra == IF ad = {} THEN [rows |-> A, out |-> None]
              ELSE upsert_author_scd2(A, dim, day, The(ad), "author" \in f)
        rv == IF vd = {} THEN [rows |-> V, out |-> None]
              ELSE upsert_video_scd2(V, dim, day, The(vd), "video" \in f)
        ri == IF idt = {} THEN [rows |-> I, out |-> None]
              ELSE upsert_interaction_scd2(I, dim, day, The(idt), "interaction" \in f)
    IN  IF "date" \in f
        THEN [A |-> A, V |-> V, I |-> I, res |-> [NoResults EXCEPT !.error = TRUE]]
        ELSE [A |-> ra.rows, V |-> rv.rows, I |-> ri.rows,
              res |-> [author |-> ra.out, video |-> rv.out, interaction |-> ri.out,
                       error |-> FALSE]]

----------------------------------------------------------------------------
(* History kept for the properties: what the passes saw *)

\* the calendar day a date key stands for
DayOf(sk) == IF sk \in Days THEN sk ELSE sk - YYYYMMDD(0)

LatestByDay(A, id) ==
    LET rows == {r \in A : r.authorID = id}
    IN  {r \in rows : \A q \in rows : DayOf(q.extract_date_sk) <= DayOf(r.extract_date_sk)}

Tracked(r) == [Name |-> r.Name, avatar |-> r.avatar]

\* the pass sees a first sighting or a tracked attribute that differs from the latest row
SeesChange(A, ad) ==
    \/ LatestByDay(A, ad.authorID) = {}
    \/ \E r \in LatestByDay(A, ad.authorID) : Tracked(r) # Tracked(ad)

----------------------------------------------------------------------------
(* The pass of etl_processor_scd2.py as main_job.job runs it *)

HistVars == <<cur, changeDays, lastToday, differed>>
DbVars == <<Authors, Videos, Interactions>>
EnvVars == <<impl, today, DateDim, control_log, storage>>
AuxVars == <<cache, arg>>
LogVars == <<LoadLog, report, processed_records, error_records>>

NoCache == [authors |-> {}, videos |-> {}, interactions |-> {}]
NoArg == [fn |-> None, n |-> 0]

Db(A, V, I) == [A |-> A, V |-> V, I |-> I]

\* no pass runs: none was started, the last one returned, or the last one died
Stopped == {"idle", "dead"}

\* a connection that keeps the writes pending until commit()
autocommit_off == FALSE

\* loader.get_db_conn: the connection main_job.job hands to the pass is autocommit
autocommit == TRUE

\* the state after construction, but for the calendar
InitState ==
    /\ today = 1
    /\ Authors = {} /\ Videos = {} /\ Interactions = {}
    /\ Committed = Db({}, {}, {})
    /\ extract_date_sk = 0
    /\ cache = NoCache /\ arg = NoArg
    /\ RawJson = <<>>
    /\ pc = "idle" /\ queue = <<>>
    /\ results = NoResults /\ stats = ZeroStats
    /\ nfail = 0 /\ cur = 0
    /\ changeDays = [a \in AuthorIds |-> {}]
    /\ lastToday = [a \in AuthorIds |-> {}]
    /\ differed = [a \in AuthorIds |-> FALSE]
    /\ LoadLog = <<>> /\ report = {}
    /\ processed_records = 0 /\ error_records = 0

\* the crawler has recorded nothing and the storage directory is empty
NoCrawl == control_log = <<>> /\ storage = [f \in FileNames |-> "missing"]

InitCommon ==
    /\ DateDim \in {lo..hi : lo \in 1..(MaxDay + 1), hi \in 0..MaxDay}
    /\ InitState
    /\ NoCrawl

Init == impl = "scd2" /\ InitCommon

\* main_job.job, step 2: one object of a file becomes one raw record
process_raw_record(it) ==
    /\ pc \in Stopped /\ Len(RawJson) < MaxRaw
    /\ RawJson' = Append(RawJson, [content |-> it, load_status |-> "success"])
    /\ UNCHANGED <<LogVars, AuxVars, EnvVars, extract_date_sk, DbVars, Committed, pc, queue, results, stats,
                   nfail, HistVars>>

\* the ids of the records WHERE load_status = 'success', in order
\* a selection that takes every raw record, whatever its status
AllIds(raw) == [i \in 1..Len(raw) |-> i]

SuccessIds(raw) ==
    LET F[i \in 0..Len(raw)] ==
            IF i = 0 THEN <<>>
            ELSE IF raw[i].load_status = "success" THEN Append(F[i - 1], i) ELSE F[i - 1]
    IN  F[Len(raw)]

\* the counts that appear in the line log_final_stats writes: inserts and updates per
\* table and the sum of the ERROR counters; nothing when processed_records is 0
log_final_stats(n, st) ==
    IF n = 0 THEN {}
    ELSE {[counts |-> [t \in Tables |-> [o \in {"INSERT", "UPDATE"} |-> st[t][o]]],
           errors |-> st["authors"]["ERROR"] + st["videos"]["ERROR"]
                          + st["interactions"]["ERROR"]]}

\* process_all_raw_json up to the loop: a new processor fetches the records
StartPass ==
    /\ pc \in Stopped /\ SuccessIds(RawJson) # <<>>
    /\ queue' = SuccessIds(RawJson)
    /\ pc' = "run" /\ stats' = ZeroStats /\ results' = NoResults
    /\ report' = {} /\ processed_records' = 0
    /\ UNCHANGED <<LoadLog, error_records, AuxVars, EnvVars, extract_date_sk, DbVars, Committed, RawJson, nfail, HistVars>>

\* one turn of the loop of process_all_raw_json
HandleRecord(f) ==
    /\ pc = "run" /\ queue # <<>>
    /\ f # {} => nfail < MaxFail
    /\ LET i == Head(queue)
           it == RawJson[i].content
           r == process_json_record(Authors, Videos, Interactions, DateDim, today, it, f)
           ad == extract_author_data(it)
           seen == ad # {} /\ f \cap {"date", "author"} = {}
           st1 == Count(Count(Count(stats, "authors", r.res.author),
                              "videos", r.res.video), "interactions", r.res.interaction)
       IN  /\ Authors' = r.A /\ Videos' = r.V /\ Interactions' = r.I
           /\ Committed' = IF autocommit THEN Db(r.A, r.V, r.I) ELSE Committed
           /\ results' = r.res
           /\ RawJson' = IF r.res.error \/ "status" \in f THEN RawJson
                         ELSE [RawJson EXCEPT ![i].load_status = "processed"]
           /\ stats' = IF "status" \in f /\ ~r.res.error
                       THEN Count(st1, "authors", "ERROR") ELSE st1
           /\ processed_records' = IF r.res.error THEN processed_records
                                    ELSE processed_records + 1
           /\ nfail' = IF f = {} THEN nfail ELSE nfail + 1
           /\ cur' = IF f = {} THEN i ELSE 0
           /\ changeDays' = IF seen /\ SeesChange(Authors, The(ad))
                            THEN [changeDays EXCEPT ![The(ad).authorID] = @ \cup {today}]
                            ELSE changeDays
           /\ lastToday' = IF seen
                           THEN [lastToday EXCEPT ![The(ad).authorID] = {Tracked(The(ad))}]
                           ELSE lastToday
           /\ differed' = IF seen /\ lastToday[The(ad).authorID] \notin {{}, {Tracked(The(ad))}}
                          THEN [differed EXCEPT ![The(ad).authorID] = TRUE]
                          ELSE differed
    /\ queue' = Tail(queue)
    /\ UNCHANGED <<LoadLog, report, error_records, AuxVars, EnvVars, extract_date_sk, pc>>

\* after the loop: commit and log_final_stats; the processor is dropped
FinishPass ==
    /\ pc = "run" /\ queue = <<>>
    /\ pc' = "idle" /\ results' = NoResults /\ stats' = ZeroStats
    /\ Committed' = Db(Authors, Videos, Interactions)
    /\ report' = log_final_stats(processed_records, stats) /\ processed_records' = 0
    /\ UNCHANGED <<LoadLog, error_records, AuxVars, EnvVars, extract_date_sk, DbVars, RawJson, queue, nfail, HistVars>>

\* the process dies in the loop: what the connection has not committed is lost
Crash ==
    /\ pc = "run"
    /\ pc' = "dead" /\ queue' = <<>> /\ results' = NoResults /\ stats' = ZeroStats
    /\ Authors' = Committed.A /\ Videos' = Committed.V /\ Interactions' = Committed.I
    /\ processed_records' = 0
    /\ UNCHANGED <<LoadLog, report, error_records, AuxVars, EnvVars, extract_date_sk, Committed,
                   RawJson, nfail, HistVars>>

\* midnight
NextDay ==
    /\ today < MaxDay
    /\ today' = today + 1
    /\ lastToday' = [a \in AuthorIds |-> {}]
    /\ differed' = [a \in AuthorIds |-> FALSE]
    /\ UNCHANGED <<LogVars, AuxVars, impl, DateDim, DbVars, Committed, extract_date_sk, RawJson, pc, queue,
                   results, stats, nfail, cur, changeDays, control_log, storage>>

\* the items the crawler hands to the pass: those of the model and one with a duration
\* that int() does not parse
CrawledItems == Items \cup {[BaseItem EXCEPT !.dur = Bad]}

Next ==
    \/ \E it \in CrawledItems : process_raw_record(it)
    \/ StartPass
    \/ \E f \in FailModes : HandleRecord(f)
    \/ FinishPass
    \/ Crash
    \/ NextDay

Spec == Init /\ [][Next]_vars

\* a pass that is not killed goes on: the loop takes its next record, and the end of the
\* function is reached after the last one
SpecLive ==
    Spec /\ WF_vars(\E f \in FailModes : HandleRecord(f)) /\ WF_vars(FinishPass)

----------------------------------------------------------------------------
(* etl_processor.py: the processor that overwrites in place *)

OutcomesV1 == Outcomes \cup {"DATE_UPDATE"}
ZeroStatsV1 == [t \in Tables |-> [o \in OutcomesV1 |-> 0]]

extract_video_data_v1(it) ==
    IF it.id = None THEN {}
    ELSE {[videoID |-> it.id, authorID |-> it.aid,
           TextContent |-> it.text, Duration |-> it.dur, CreateTime |-> it.ctime,
           WebVideoUrl |-> it.url]}

\* UPDATE Authors SET Name, avatar, extract_date_sk WHERE authorID = %s
upsert_author_v1(A, ad, sk, fail) ==
    LET found == {r \in A : r.authorID = ad.authorID}
    IN  IF fail THEN [rows |-> A, out |-> "ERROR"]
        ELSE IF found # {}
        THEN IF \E r \in found : r.Name # ad.Name \/ r.avatar # ad.avatar
             THEN [rows |-> (A \ found) \cup {AuthorRow(ad, sk)}, out |-> "UPDATE"]
             ELSE [rows |-> A, out |-> "NO_CHANGE"]
        ELSE [rows |-> A \cup {AuthorRow(ad, sk)}, out |-> "INSERT"]

\* UPDATE Videos SET TextContent, Duration, WebVideoUrl, create_date_sk WHERE videoID = %s
upsert_video_v1(V, vd, sk, fail) ==
    LET found == ExistingRow(V, vd.videoID)
    IN  IF fail THEN [rows |-> V, out |-> "ERROR"]
        ELSE IF found # {}
        THEN LET existing == The(found)
             IN  IF \/ existing.TextContent # vd.TextContent
                    \/ existing.Duration # vd.Duration
                    \/ existing.WebVideoUrl # vd.WebVideoUrl
                 THEN [rows |-> (V \ found)
                                \cup {[existing EXCEPT !.TextContent = vd.TextContent,
                                                       !.Duration = vd.Duration,
                                                       !.WebVideoUrl = vd.WebVideoUrl,
                                                       !.create_date_sk = sk]},
                       out |-> "UPDATE"]
                 ELSE [rows |-> V, out |-> "NO_CHANGE"]
        ELSE [rows |-> V \cup {VideoRow(vd, sk)}, out |-> "INSERT"]

upsert_interaction_v1(I, dim, day, idt, fail) ==
    LET today_sk == get_date_sk_for_today(dim, day)
        found == ExistingRow(I, idt.videoID)
    IN  IF fail THEN [rows |-> I, out |-> "ERROR"]
        ELSE IF found # {}
        THEN LET existing == The(found)
             IN  IF \E i \in 1..5 : existing.cnt[i] # idt.cnt[i]
                 THEN [rows |-> (I \ found) \cup {InteractionRow(idt, today_sk)},
                       out |-> "UPDATE"]
                 ELSE IF existing.interaction_date_sk # today_sk
                 THEN [rows |-> (I \ found)
                                \cup {[existing EXCEPT !.interaction_date_sk = today_sk]},
                       out |-> "DATE_UPDATE"]
                 ELSE [rows |-> I, out |-> "NO_CHANGE"]
        ELSE [rows |-> I \cup {InteractionRow(idt, today_sk)}, out |-> "INSERT"]

FailStepsV1 == {"parse", "author", "video", "interaction", "commit"}
FailModesV1 == {{}} \cup {{f} : f \in FailStepsV1} \cup {{"author", "video", "interaction"}}

\* the body of the loop of process_raw_json_data up to the commit: the tables as the
\* connection sees them, with the results; sk: the date key the pass took at its start
process_record_v1(A, V, I, dim, day, sk, it, f) ==
    LET ad == extract_author_data(it)
        vd == extract_video_data_v1(it)
        idt == extract_interaction_data(it)
        ra == IF ad = {} THEN [rows |-> A, out |-> None]
              ELSE upsert_author_v1(A, The(ad), sk, "author" \in f)
        rv == IF vd = {} THEN [rows |-> V, out |-> None]
              ELSE upsert_video_v1(V, The(vd), sk, "video" \in f)
        ri == IF idt = {} THEN [rows |-> I, out |-> None]
              ELSE upsert_interaction_v1(I, dim, day, The(idt), "interaction" \in f)
    IN  IF "parse" \in f
        THEN [A |-> A, V |-> V, I |-> I, res |-> [NoResults EXCEPT !.error = TRUE]]
        ELSE [A |-> ra.rows, V |-> rv.rows, I |-> ri.rows,
              res |-> [author |-> ra.out, video |-> rv.out, interaction |-> ri.out,
                       error |-> "commit" \in f]]

\* self.conn.commit() at the end of a turn of the loop: what is committed after it
commit_record(seen, committed) == seen

InitV1 == impl = "v1" /\ InitCommon

\* a raw record the pass selects (manual_process_scd2 marks records 'PROCESSED')
mark_processed(it) ==
    /\ pc \in Stopped /\ Len(RawJson) < MaxRaw
    /\ RawJson' = Append(RawJson, [content |-> it, load_status |-> "PROCESSED"])
    /\ UNCHANGED <<LogVars, AuxVars, EnvVars, DbVars, Committed, extract_date_sk, pc, queue, results, stats,
                   nfail, HistVars>>

ProcessedIds(raw) ==
    LET F[i \in 0..Len(raw)] ==
            IF i = 0 THEN <<>>
            ELSE IF raw[i].load_status = "PROCESSED" THEN Append(F[i - 1], i)
                 ELSE F[i - 1]
    IN  F[Len(raw)]

\* the key order of the counters of a table
OpOrder == <<"INSERT", "UPDATE", "NO_CHANGE", "DATE_UPDATE", "ERROR">>

\* sum(operation_counts.values())
Total(operation_counts) ==
    LET F[i \in 0..Len(OpOrder)] ==
            IF i = 0 THEN 0
            ELSE F[i - 1] + (IF OpOrder[i] \in DOMAIN operation_counts
                             THEN operation_counts[OpOrder[i]] ELSE 0)
    IN  F[Len(OpOrder)]

\* "ETL" and the first two operations whose count is positive
operation_type(operation_counts) ==
    LET Positive(o) == o \in DOMAIN operation_counts /\ operation_counts[o] > 0
        ops == SelectSeq(OpOrder, Positive)
    IN  <<"ETL">> \o SubSeq(ops, 1, IF Len(ops) < 2 THEN Len(ops) ELSE 2)

TableName(t) ==
    CASE t = "authors" -> "Authors" [] t = "videos" -> "Videos"
      [] t = "interactions" -> "VideoInteractions"

\* log_operation: the rows of LoadLog after it; fail: the INSERT raises, the exception is
\* logged and dropped
log_operation(log, table_name, operation_counts, status, fail) ==
    IF fail THEN log
    ELSE Append(log, [table_name |-> table_name,
                      operation_type |-> operation_type(operation_counts),
                      record_count |-> Total(operation_counts), status |-> status])

\* what the run logs of the counters of a table: all of them in the line of
\* log_operation, or the three of the summary when log_operation raised inside
logged_counts(operation_counts, fail) ==
    IF fail THEN [o \in {"INSERT", "UPDATE", "NO_CHANGE"} |-> operation_counts[o]]
    ELSE operation_counts

\* the sets of tables whose log_operation may raise inside
LogFails == {{}} \cup {{t} : t \in Tables} \cup {Tables}

\* process_raw_json_data up to the loop
StartPassV1 ==
    /\ pc \in Stopped /\ ProcessedIds(RawJson) # <<>>
    /\ extract_date_sk' = get_date_sk_for_today(DateDim, today)
    /\ queue' = ProcessedIds(RawJson)
    /\ pc' = "run" /\ stats' = ZeroStatsV1 /\ results' = NoResults
    /\ LoadLog' = <<>> /\ report' = {} /\ processed_records' = 0 /\ error_records' = 0
    /\ UNCHANGED <<AuxVars, EnvVars, DbVars, Committed, RawJson, nfail, HistVars>>

\* one turn of the loop of process_raw_json_data: upserts, then commit, or rollback
HandleRecordV1(f) ==
    /\ pc = "run" /\ queue # <<>>
    /\ f # {} => nfail < MaxFail
    /\ LET it == RawJson[Head(queue)].content
           r == process_record_v1(Authors, Videos, Interactions, DateDim, today,
                                  extract_date_sk, it, f)
           c == IF r.res.error THEN Committed
                ELSE commit_record(Db(r.A, r.V, r.I), Committed)
       IN  /\ Committed' = c
           /\ Authors' = IF r.res.error THEN Committed.A ELSE r.A
           /\ Videos' = IF r.res.error THEN Committed.V ELSE r.V
           /\ Interactions' = IF r.res.error THEN Committed.I ELSE r.I
           /\ results' = r.res
           /\ stats' = IF "parse" \in f THEN stats
                       ELSE Count(Count(Count(stats, "authors", r.res.author),
                                  "videos", r.res.video), "interactions", r.res.interaction)
           /\ processed_records' = IF "parse" \in f THEN processed_records
                                    ELSE processed_records + 1
           /\ error_records' = IF r.res.error THEN error_records + 1 ELSE error_records
    /\ nfail' = IF f = {} THEN nfail ELSE nfail + 1
    /\ queue' = Tail(queue)
    /\ UNCHANGED <<LoadLog, report, AuxVars, EnvVars, RawJson, extract_date_sk, pc, HistVars>>

\* after the loop: the three log_operation calls and the summary; the processor is
\* dropped; lf: the tables whose log_operation raises inside
FinishPassV1(lf) ==
    /\ pc = "run" /\ queue = <<>>
    /\ lf # {} => nfail < MaxFail
    /\ pc' = "idle" /\ results' = NoResults /\ stats' = ZeroStats
    /\ extract_date_sk' = 0
    /\ LoadLog' =
          log_operation(
              log_operation(
                  log_operation(LoadLog, "Authors", stats["authors"], "success",
                                "authors" \in lf),
                  "Videos", stats["videos"], "success", "videos" \in lf),
              "VideoInteractions", stats["interactions"], "success", "interactions" \in lf)
    /\ report' = {[counts |-> [t \in Tables |-> logged_counts(stats[t], t \in lf)],
                   errors |-> error_records]}
    /\ processed_records' = 0 /\ error_records' = 0
    /\ nfail' = IF lf = {} THEN nfail ELSE nfail + 1
    /\ UNCHANGED <<AuxVars, EnvVars, DbVars, Committed, RawJson, queue, HistVars>>

CrashV1 ==
    /\ pc = "run"
    /\ pc' = "dead" /\ queue' = <<>> /\ results' = NoResults /\ stats' = ZeroStats
    /\ extract_date_sk' = 0
    /\ Authors' = Committed.A /\ Videos' = Committed.V /\ Interactions' = Committed.I
    /\ processed_records' = 0 /\ error_records' = 0
    /\ UNCHANGED <<LoadLog, report, AuxVars, EnvVars, Committed, RawJson, nfail, HistVars>>

NextV1 ==
    \/ \E it \in Items : mark_processed(it)
    \/ StartPassV1
    \/ \E f \in FailModesV1 : HandleRecordV1(f)
    \/ \E lf \in LogFails : FinishPassV1(lf)
    \/ CrashV1
    \/ NextDay

SpecV1 == InitV1 /\ [][NextV1]_vars

\* both processors
InitAll == impl \in {"scd2", "v1"} /\ InitCommon
NextAll == (impl = "scd2" /\ Next) \/ (impl = "v1" /\ NextV1)
SpecAll == InitAll /\ [][NextAll]_vars

----------------------------------------------------------------------------
(* db.py: UpsertManager and BatchFetcher *)

MaxCalls == 3

\* what the processors' passes use and the managers of db.py leave alone
PassState == <<extract_date_sk, pc, queue, stats, HistVars>>

\* existing_data: the stored row of the key when the caller passes a snapshot
Snapshot(rows, snap) == IF snap THEN rows ELSE {}

\* an author upsert that takes a missing snapshot for unchanged data
UpsertManager_upsert_author_lazy(A, ad, date_sk, existing_authors, existing_data, fail) ==
    IF fail THEN [rows |-> A, out |-> "ERROR"]
    ELSE IF ad.authorID \notin existing_authors
    THEN IF \E r \in A : r.authorID = ad.authorID
         THEN [rows |-> A, out |-> "ERROR"]
         ELSE [rows |-> A \cup {AuthorRow(ad, date_sk)}, out |-> "INSERT"]
    ELSE IF \A e \in existing_data : e.Name = ad.Name /\ e.avatar = ad.avatar
    THEN [rows |-> A, out |-> "SKIP"]
    ELSE [rows |-> {IF r.authorID = ad.authorID /\ r.extract_date_sk = date_sk
                    THEN AuthorRow(ad, date_sk) ELSE r : r \in A},
          out |-> "UPDATE"]

\* INSERT_AUTHOR / UPDATE_AUTHOR ... WHERE author_id = %s AND extract_date_sk = %s
UpsertManager_upsert_author(A, ad, date_sk, existing_authors, existing_data, fail) ==
    IF fail THEN [rows |-> A, out |-> "ERROR"]
    ELSE IF ad.authorID \notin existing_authors
    THEN IF \E r \in A : r.authorID = ad.authorID
         THEN [rows |-> A, out |-> "ERROR"]
         ELSE [rows |-> A \cup {AuthorRow(ad, date_sk)}, out |-> "INSERT"]
    ELSE IF /\ existing_data # {}
            /\ \A e \in existing_data : e.Name = ad.Name /\ e.avatar = ad.avatar
    THEN [rows |-> A, out |-> "SKIP"]
    ELSE [rows |-> {IF r.authorID = ad.authorID /\ r.extract_date_sk = date_sk
                    THEN AuthorRow(ad, date_sk) ELSE r : r \in A},
          out |-> "UPDATE"]

\* INSERT_VIDEO / UPDATE_VIDEO ... WHERE video_id = %s AND create_date_sk = %s
UpsertManager_upsert_video(V, vd, date_sk, existing_videos, existing_data, fail) ==
    IF fail THEN [rows |-> V, out |-> "ERROR"]
    ELSE IF vd.videoID \notin existing_videos
    THEN IF ExistingRow(V, vd.videoID) # {}
         THEN [rows |-> V, out |-> "ERROR"]
         ELSE [rows |-> V \cup {VideoRow(vd, date_sk)}, out |-> "INSERT"]
    ELSE IF /\ existing_data # {}
            /\ \A e \in existing_data : /\ e.TextContent = vd.TextContent
                                        /\ e.Duration = vd.Duration
                                        /\ e.CreateTime = vd.CreateTime
    THEN [rows |-> V, out |-> "SKIP"]
    ELSE [rows |-> {IF r.videoID = vd.videoID /\ r.create_date_sk = date_sk
                    THEN [r EXCEPT !.TextContent = vd.TextContent,
                                   !.Duration = vd.Duration,
                                   !.CreateTime = vd.CreateTime,
                                   !.WebVideoUrl = vd.WebVideoUrl]
                    ELSE r : r \in V},
          out |-> "UPDATE"]

\* INSERT_INTERACTION / UPDATE_INTERACTION ... WHERE video_id = %s AND
\* interaction_date_sk = %s
UpsertManager_upsert_interaction(I, idt, date_sk, existing_interactions, existing_data, fail) ==
    IF fail THEN [rows |-> I, out |-> "ERROR"]
    ELSE IF idt.videoID \notin existing_interactions
    THEN IF ExistingRow(I, idt.videoID) # {}
         THEN [rows |-> I, out |-> "ERROR"]
         ELSE [rows |-> I \cup {InteractionRow(idt, date_sk)}, out |-> "INSERT"]
    ELSE IF /\ existing_data # {}
            /\ \A e \in existing_data : \A i \in 1..5 : e.cnt[i] = idt.cnt[i]
    THEN [rows |-> I, out |-> "SKIP"]
    ELSE [rows |-> {IF r.videoID = idt.videoID /\ r.interaction_date_sk = date_sk
                    THEN [r EXCEPT !.cnt = idt.cnt] ELSE r : r \in I},
          out |-> "UPDATE"]

\* the caller of a batch puts the key of an INSERT into its identity set
cache_add(set, key, out) == IF out = "INSERT" THEN set \cup {key} ELSE set

InitUM == impl = "um" /\ InitCommon

\* a fetch that hands on what its query found, also when the query has failed
fetch_all_authors_regardless(A, fail) == {r.authorID : r \in A}

\* BatchFetcher.fetch_all_authors; fail: the query raises Error (except Error: return set())
fetch_all_authors(A, fail) == IF fail THEN {} ELSE {r.authorID : r \in A}

\* BatchFetcher.fetch_all_videos
fetch_all_videos(V, fail) == IF fail THEN {} ELSE {r.videoID : r \in V}

\* BatchFetcher.fetch_all_interactions
fetch_all_interactions(I, fail) == IF fail THEN {} ELSE {r.videoID : r \in I}

\* BatchFetcher.fetch_all: the three identity sets, read once for a batch;
\* fail: the queries that raise Error
fetch_all(fail) ==
    /\ arg.n < MaxCalls
    /\ fail # {} => nfail < MaxFail
    /\ cache' = [authors |-> fetch_all_authors(Authors, "authors" \in fail),
                 videos |-> fetch_all_videos(Videos, "videos" \in fail),
                 interactions |-> fetch_all_interactions(Interactions,
                                                         "interactions" \in fail)]
    /\ arg' = [fn |-> "fetch_all", fail |-> fail, n |-> arg.n + 1]
    /\ results' = NoResults
    /\ nfail' = IF fail # {} THEN nfail + 1 ELSE nfail
    /\ UNCHANGED <<LogVars, EnvVars, DbVars, Committed, RawJson, PassState>>

CallAuthor(it, snap, fail) ==
    /\ arg.n < MaxCalls /\ today \in DateDim
    /\ extract_author_data(it) # {}
    /\ fail => nfail < MaxFail
    /\ LET ad == The(extract_author_data(it))
           r == UpsertManager_upsert_author(Authors, ad, today, cache.authors,
                    Snapshot({x \in Authors : x.authorID = ad.authorID}, snap), fail)
       IN  /\ Authors' = r.rows
           /\ results' = [NoResults EXCEPT !.author = r.out]
           /\ cache' = [cache EXCEPT !.authors = cache_add(@, ad.authorID, r.out)]
           /\ Committed' = Db(r.rows, Videos, Interactions)
    /\ arg' = [fn |-> "upsert_author", it |-> it, snap |-> snap, n |-> arg.n + 1]
    /\ nfail' = IF fail THEN nfail + 1 ELSE nfail
    /\ UNCHANGED <<LogVars, EnvVars, Videos, Interactions, RawJson, PassState>>

CallVideo(it, snap, fail) ==
    /\ arg.n < MaxCalls /\ today \in DateDim
    /\ extract_video_data(it) # {}
    /\ fail => nfail < MaxFail
    /\ LET vd == The(extract_video_data(it))
           r == UpsertManager_upsert_video(Videos, vd, today, cache.videos,
                    Snapshot(ExistingRow(Videos, vd.videoID), snap), fail)
       IN  /\ Videos' = r.rows
           /\ results' = [NoResults EXCEPT !.video = r.out]
           /\ cache' = [cache EXCEPT !.videos = cache_add(@, vd.videoID, r.out)]
           /\ Committed' = Db(Authors, r.rows, Interactions)
    /\ arg' = [fn |-> "upsert_video", it |-> it, snap |-> snap, n |-> arg.n + 1]
    /\ nfail' = IF fail THEN nfail + 1 ELSE nfail
    /\ UNCHANGED <<LogVars, EnvVars, Authors, Interactions, RawJson, PassState>>

CallInteraction(it, snap, fail) ==
    /\ arg.n < MaxCalls /\ today \in DateDim
    /\ extract_interaction_data(it) # {}
    /\ fail => nfail < MaxFail
    /\ LET idt == The(extract_interaction_data(it))
           r == UpsertManager_upsert_interaction(Interactions, idt, today,
                    cache.interactions,
                    Snapshot(ExistingRow(Interactions, idt.videoID), snap), fail)
       IN  /\ Interactions' = r.rows
           /\ results' = [NoResults EXCEPT !.interaction = r.out]
           /\ cache' = [cache EXCEPT !.interactions = cache_add(@, idt.videoID, r.out)]
           /\ Committed' = Db(Authors, Videos, r.rows)
    /\ arg' = [fn |-> "upsert_interaction", it |-> it, snap |-> snap, n |-> arg.n + 1]
    /\ nfail' = IF fail THEN nfail + 1 ELSE nfail
    /\ UNCHANGED <<LogVars, EnvVars, Authors, Videos, RawJson, PassState>>

NextUM ==
    \/ \E fail \in SUBSET Tables : fetch_all(fail)
    \/ \E it \in Items, snap \in BOOLEAN, fail \in BOOLEAN : CallAuthor(it, snap, fail)
    \/ \E it \in Items, snap \in BOOLEAN, fail \in BOOLEAN : CallVideo(it, snap, fail)
    \/ \E it \in Items, snap \in BOOLEAN, fail \in BOOLEAN : CallInteraction(it, snap, fail)
    \/ NextDay

SpecUM == InitUM /\ [][NextUM]_vars

----------------------------------------------------------------------------
(* db.py: RawJsonManager *)

MaxPayload == 2

RawKeys == {"v1", "v2"}
RawItems == {[BaseItem EXCEPT !.id = k] : k \in RawKeys \cup {None}}
Payloads == UNION {[1..n -> RawItems] : n \in 1..MaxPayload}

\* the ids of the items of the records WHERE load_status = 'SUCCESS' AND content != ''
ItemIds(content) == {content[j].id : j \in 1..Len(content)} \ {None}

StoredIds(raw) ==
    UNION {ItemIds(raw[i].content) :
              i \in {k \in 1..Len(raw) : raw[k].load_status = "SUCCESS"}}

\* where a database Error can strike one call of insert_raw_json: in the SELECT of
\* fetch_existing_video_ids, in the INSERT, or in delete_old_raw_json
RawFailModes == {"none", "fetch", "insert", "delete"}

\* except Error: return set()
fetch_existing_video_ids(raw, fail) == IF fail THEN {} ELSE StoredIds(raw)

RECURSIVE Filter(_, _, _)
\* the items of a payload whose id is set and (keep) in ids or (not keep) not in ids
Filter(content, ids, keep) ==
    IF content = <<>> THEN <<>>
    ELSE LET it == Head(content)
             rest == Filter(Tail(content), ids, keep)
         IN  IF it.id # None /\ ((it.id \in ids) <=> keep) THEN <<it>> \o rest ELSE rest

RECURSIVE Without(_, _)
\* DELETE FROM RawJson WHERE raw_json_id IN (...): the SUCCESS records that hold an id
\* of video_ids_to_delete go
Without(raw, ids) ==
    IF raw = <<>> THEN <<>>
    ELSE LET r == Head(raw)
         IN  IF r.load_status = "SUCCESS" /\ ItemIds(r.content) \cap ids # {}
             THEN Without(Tail(raw), ids)
             ELSE <<r>> \o Without(Tail(raw), ids)

\* except Error: rollback, return False (a value insert_raw_json does not look at)
delete_old_raw_json(raw, video_ids_to_delete, fail) ==
    IF fail THEN raw ELSE Without(raw, video_ids_to_delete)

RawRecord(id, content, status) ==
    [raw_json_id |-> id, content |-> content, load_status |-> status]

\* the raw store after insert_raw_json(content, status); id: the AUTO_INCREMENT value
insert_raw_json(raw, content, status, id, fail) ==
    IF status = "FAILED" THEN Append(raw, RawRecord(id, content, status))
    ELSE LET existing_video_ids == fetch_existing_video_ids(raw, fail = "fetch")
             new_items == Filter(content, existing_video_ids, FALSE)
             old_video_ids == ItemIds(Filter(content, existing_video_ids, TRUE))
         IN  IF new_items = <<>>
             THEN delete_old_raw_json(raw, old_video_ids, fail = "delete")
             ELSE IF fail = "insert" THEN raw
             ELSE delete_old_raw_json(Append(raw, RawRecord(id, new_items, status)),
                                      old_video_ids, fail = "delete")

InitRaw == impl = "raw" /\ InitCommon

\* a file with a valid payload is stored
InsertSuccess(content, fail) ==
    /\ arg.n < MaxCalls
    /\ fail # "none" => nfail < MaxFail
    /\ RawJson' = insert_raw_json(RawJson, content, "SUCCESS", arg.n + 1, fail)
    /\ arg' = [fn |-> "insert_raw_json", content |-> content, status |-> "SUCCESS",
               n |-> arg.n + 1]
    /\ nfail' = IF fail # "none" THEN nfail + 1 ELSE nfail
    /\ UNCHANGED <<LogVars, EnvVars, DbVars, Committed, cache, results, PassState>>

\* a file that failed is recorded, with the content its caller hands over
InsertFailed(content) ==
    /\ arg.n < MaxCalls
    /\ RawJson' = insert_raw_json(RawJson, content, "FAILED", arg.n + 1, "none")
    /\ arg' = [fn |-> "insert_raw_json", content |-> content, status |-> "FAILED",
               n |-> arg.n + 1]
    /\ UNCHANGED <<LogVars, EnvVars, DbVars, Committed, cache, results, nfail, PassState>>

NextRaw ==
    \/ \E c \in Payloads, fail \in RawFailModes : InsertSuccess(c, fail)
    \/ \E c \in Payloads \cup {<<>>} : InsertFailed(c)

SpecRaw == InitRaw /\ [][NextRaw]_vars

----------------------------------------------------------------------------
(* db.py: LoadLogManager, and log_operation of etl_processor.py called alone *)

\* what can strike a call: nothing; a database Error in the INSERT or the commit; the
\* same with the rollback of the handler raising as well
LogFailModes == {"none", "error", "rollback"}

\* a start_time or end_time that is no datetime (None)
NoTime == 0
Times == {NoTime, 1}

LoadStatus == {"SUCCESS", "PARTIAL"}

LogArgs ==
    [table_name : {"Authors"}, inserted_count : 0..1, skipped_count : {0},
     status : LoadStatus, start_time : Times, end_time : {NoTime, MaxDay}]

\* log_load: the rows of LoadLog after it, the value it returns, whether it raises
log_load(log, a, fail) ==
    IF a.start_time = NoTime \/ a.end_time = NoTime
    THEN \* (end_time - start_time) raises a TypeError, which except Error lets through
         [log |-> log, ret |-> FALSE, raised |-> TRUE]
    ELSE CASE fail = "none" ->
                [log |-> Append(log, [table_name |-> a.table_name,
                                      record_count |-> a.inserted_count + a.skipped_count,
                                      inserted_count |-> a.inserted_count,
                                      updated_count |-> 0,
                                      skipped_count |-> a.skipped_count,
                                      status |-> a.status,
                                      duration_seconds |-> a.end_time - a.start_time]),
                 ret |-> TRUE, raised |-> FALSE]
           [] fail = "error" -> [log |-> log, ret |-> FALSE, raised |-> FALSE]
           [] OTHER -> [log |-> log, ret |-> FALSE, raised |-> TRUE]

InitLog == impl = "log" /\ InitCommon

CallLogLoad(a, fail) ==
    /\ arg.n < MaxCalls
    /\ fail # "none" => nfail < MaxFail
    /\ LET r == log_load(LoadLog, a, fail)
       IN  /\ LoadLog' = r.log
           /\ arg' = [fn |-> "log_load", a |-> a, ret |-> r.ret, raised |-> r.raised,
                      n |-> arg.n + 1]
    /\ nfail' = IF fail # "none" THEN nfail + 1 ELSE nfail
    /\ UNCHANGED <<report, processed_records, error_records, EnvVars, DbVars, Committed, cache,
                   RawJson, results, PassState>>

\* the counters of a table handed to log_operation
LogCounts == {[ZeroStats["authors"] EXCEPT ![o] = n] : o \in {"INSERT", "ERROR"}, n \in 0..1}

\* log_operation wraps all it does in try / except Exception and has no rollback
CallLogOperation(t, operation_counts, fail) ==
    /\ arg.n < MaxCalls
    /\ fail # "none" => nfail < MaxFail
    /\ LoadLog' = log_operation(LoadLog, TableName(t), operation_counts, "success",
                                fail # "none")
    /\ arg' = [fn |-> "log_operation", raised |-> FALSE, n |-> arg.n + 1]
    /\ nfail' = IF fail # "none" THEN nfail + 1 ELSE nfail
    /\ UNCHANGED <<report, processed_records, error_records, EnvVars, DbVars, Committed, cache,
                   RawJson, results, PassState>>

NextLog ==
    \/ \E a \in LogArgs, fail \in LogFailModes : CallLogLoad(a, fail)
    \/ \E c \in LogCounts, fail \in LogFailModes : CallLogOperation("authors", c, fail)

SpecLog == InitLog /\ [][NextLog]_vars

----------------------------------------------------------------------------
(* loader.py: load_raw *)

\* where an exception can strike process_raw_file: nowhere, in the first insert_raw of a
\* file only, or in every statement up to the commit
LoadRawFailModes == {"none", "insert", "all"}

\* insert_raw: one row of RawJson with the content and the status handed over
insert_raw(raw, content_obj, status) ==
    Append(raw, RawRecord(Len(raw) + 1, content_obj, status))

RECURSIVE insert_lines(_, _)
\* the JSON-lines branch: one row per line
insert_lines(raw, data) ==
    IF data = <<>> THEN raw
    ELSE insert_lines(insert_raw(raw, <<Head(data)>>, "success"), Tail(data))

\* the rows after process_raw_file and whether it raised (after its rollback)
process_raw_file(raw, data, is_lines, fail) ==
    IF is_lines
    THEN IF fail = "none" THEN [raw |-> insert_lines(raw, data), raised |-> FALSE]
         ELSE [raw |-> raw, raised |-> TRUE]
    ELSE CASE fail = "none"   -> [raw |-> insert_raw(raw, data, "success"), raised |-> FALSE]
           [] fail = "insert" -> [raw |-> insert_raw(raw, data, "failed"), raised |-> FALSE]
           [] OTHER           -> [raw |-> raw, raised |-> TRUE]

InitLoadRaw == impl = "load_raw" /\ InitCommon

\* one turn of the loop of load_raw over the files
load_raw(data, is_lines, fail) ==
    /\ arg.n < MaxCalls
    /\ fail # "none" => nfail < MaxFail
    /\ LET r == process_raw_file(RawJson, data, is_lines, fail)
       IN  RawJson' = IF r.raised THEN insert_raw(r.raw, <<>>, "failed") ELSE r.raw
    /\ arg' = [fn |-> "process_raw_file", content |-> data, is_lines |-> is_lines,
               n |-> arg.n + 1]
    /\ nfail' = IF fail # "none" THEN nfail + 1 ELSE nfail
    /\ UNCHANGED <<LogVars, EnvVars, DbVars, Committed, cache, results, PassState>>

NextLoadRaw ==
    \E data \in Payloads, is_lines \in BOOLEAN, fail \in LoadRawFailModes :
        load_raw(data, is_lines, fail)

SpecLoadRaw == InitLoadRaw /\ [][NextLoadRaw]_vars

----------------------------------------------------------------------------
(* loader.py: compare_and_load_incremental *)

\* a date key of NULL
NullSk == 0

ItemsInc ==
    {BaseItem, [BaseItem EXCEPT !.id = None], [BaseItem EXCEPT !.aid = None],
     [BaseItem EXCEPT !.ctime = "c2"], [BaseItem EXCEPT !.ctime = None],
     [BaseItem EXCEPT !.nick = "n2"], [BaseItem EXCEPT !.cnt = Bump(BaseCounts, 1)]}

Files == UNION {[1..n -> ItemsInc] : n \in 1..MaxRaw}

\* the calendar day of a createTime: "c1" is in day 1, "c2" in day 2
CreatedDay(ct) == IF ct = "c1" THEN {1} ELSE IF ct = "c2" THEN {2} ELSE {}

\* SELECT date_sk FROM DateDim WHERE full_date = %s, None without a row or a date
get_date_sk_from_date(dim, ct) ==
    IF CreatedDay(ct) \cap dim = {} THEN NullSk ELSE The(CreatedDay(ct) \cap dim)

\* INSERT ... ON DUPLICATE KEY UPDATE: the row of the key is replaced
loader_upsert_author(A, ad, date_sk) ==
    {r \in A : r.authorID # ad.authorID} \cup {AuthorRow(ad, date_sk)}

loader_upsert_video(V, vd, date_sk) ==
    {r \in V : r.videoID # vd.videoID} \cup {VideoRow(vd, date_sk)}

loader_upsert_interactions(I, idt, date_sk) ==
    {r \in I : r.videoID # idt.videoID} \cup {InteractionRow(idt, date_sk)}

\* insert_load_log: one row of LoadLog
insert_load_log(log, table_name, operation, record_count, status) ==
    Append(log, [table_name |-> table_name, operation_type |-> operation,
                 record_count |-> record_count, status |-> status])

InitInc == impl = "inc" /\ InitCommon

\* compare_and_load_incremental up to the loop: existing_videos is read, a file is opened
StartInc(file) ==
    /\ pc \in Stopped
    /\ cache' = [cache EXCEPT !.videos = {r.videoID : r \in Videos}]
    /\ queue' = file /\ pc' = "run"
    /\ results' = NoResults /\ stats' = ZeroStats
    /\ LoadLog' = <<>>
    /\ UNCHANGED <<report, processed_records, error_records, EnvVars, DbVars, Committed, RawJson,
                   arg, extract_date_sk, nfail, HistVars>>

\* the turn of the loop were it to upsert the Video of an existing key as well
HandleItem_rewriting(fail) ==
    /\ pc = "run" /\ queue # <<>>
    /\ fail => nfail < MaxFail
    /\ LET it == Head(queue)
           ad == extract_author_data(it)
           vd == extract_video_data_v1(it)
           idt == extract_interaction_data(it)
           date_sk == get_date_sk_from_date(DateDim, it.ctime)
           is_existing == it.id \in cache.videos
           A1 == IF vd = {} \/ is_existing \/ ad = {} THEN Authors
                 ELSE loader_upsert_author(Authors, The(ad), date_sk)
           V1 == IF vd = {} \/ (fail /\ ~is_existing) THEN Videos
                 ELSE loader_upsert_video(Videos, The(vd), date_sk)
           I1 == IF vd = {} \/ (fail /\ ~is_existing) THEN Interactions
                 ELSE loader_upsert_interactions(Interactions, The(idt), date_sk)
           raised == fail /\ vd # {} /\ ~is_existing
       IN  /\ Authors' = A1 /\ Videos' = V1 /\ Interactions' = I1
           /\ Committed' = Db(A1, V1, I1)
           /\ cache' = IF vd = {} \/ is_existing \/ raised THEN cache
                       ELSE [cache EXCEPT !.videos = @ \cup {it.id}]
           /\ results' = IF vd = {} THEN NoResults
                         ELSE IF raised THEN [NoResults EXCEPT !.error = TRUE]
                         ELSE IF is_existing
                         THEN [NoResults EXCEPT !.interaction = "UPDATE"]
                         ELSE [author |-> IF ad = {} THEN None ELSE "INSERT",
                               video |-> "INSERT", interaction |-> "INSERT",
                               error |-> FALSE]
           /\ queue' = IF raised THEN <<>> ELSE Tail(queue)
           /\ nfail' = IF raised THEN nfail + 1 ELSE nfail
           \* new_count and updated_count; they are dropped with the file that raises
           /\ stats' = IF raised THEN ZeroStats
                       ELSE IF vd = {} THEN stats
                       ELSE IF is_existing THEN Count(stats, "interactions", "UPDATE")
                       ELSE Count(stats, "videos", "INSERT")
    /\ UNCHANGED <<LogVars, EnvVars, RawJson, arg, extract_date_sk, pc, HistVars>>

\* one item of the file; fail: upsert_video raises and the file is given up
HandleItem(fail) ==
    /\ pc = "run" /\ queue # <<>>
    /\ fail => nfail < MaxFail
    /\ LET it == Head(queue)
           ad == extract_author_data(it)
           vd == extract_video_data_v1(it)
           idt == extract_interaction_data(it)
           date_sk == get_date_sk_from_date(DateDim, it.ctime)
           is_existing == it.id \in cache.videos
           A1 == IF vd = {} \/ is_existing \/ ad = {} THEN Authors
                 ELSE loader_upsert_author(Authors, The(ad), date_sk)
           V1 == IF vd = {} \/ is_existing \/ fail THEN Videos
                 ELSE loader_upsert_video(Videos, The(vd), date_sk)
           I1 == IF vd = {} \/ (fail /\ ~is_existing) THEN Interactions
                 ELSE loader_upsert_interactions(Interactions, The(idt), date_sk)
           raised == fail /\ vd # {} /\ ~is_existing
       IN  /\ Authors' = A1 /\ Videos' = V1 /\ Interactions' = I1
           /\ Committed' = Db(A1, V1, I1)
           /\ cache' = IF vd = {} \/ is_existing \/ raised THEN cache
                       ELSE [cache EXCEPT !.videos = @ \cup {it.id}]
           /\ results' = IF vd = {} THEN NoResults
                         ELSE IF raised THEN [NoResults EXCEPT !.error = TRUE]
                         ELSE IF is_existing
                         THEN [NoResults EXCEPT !.interaction = "UPDATE"]
                         ELSE [author |-> IF ad = {} THEN None ELSE "INSERT",
                               video |-> "INSERT", interaction |-> "INSERT",
                               error |-> FALSE]
           /\ queue' = IF raised THEN <<>> ELSE Tail(queue)
           /\ nfail' = IF raised THEN nfail + 1 ELSE nfail
           \* new_count and updated_count; they are dropped with the file that raises
           /\ stats' = IF raised THEN ZeroStats
                       ELSE IF vd = {} THEN stats
                       ELSE IF is_existing THEN Count(stats, "interactions", "UPDATE")
                       ELSE Count(stats, "videos", "INSERT")
    /\ UNCHANGED <<LogVars, EnvVars, RawJson, arg, extract_date_sk, pc, HistVars>>

\* after the loop: the load log is written; fail: an insert_load_log raises, which is
\* printed, and no row stays
FinishInc(fail) ==
    /\ pc = "run" /\ queue = <<>>
    /\ fail => nfail < MaxFail
    /\ pc' = "idle" /\ results' = NoResults /\ stats' = ZeroStats
    /\ LET total_new == stats["videos"]["INSERT"]
           total_updated == stats["interactions"]["UPDATE"]
       IN  LoadLog' =
             IF fail THEN <<>>
             ELSE insert_load_log(
                      insert_load_log(
                          insert_load_log(LoadLog, "Authors", "UPSERT", total_new, "success"),
                          "Videos", "UPSERT", total_new, "success"),
                      "VideoInteractions", "UPDATE", total_updated, "success")
    /\ nfail' = IF fail THEN nfail + 1 ELSE nfail
    /\ UNCHANGED <<report, processed_records, error_records, AuxVars, EnvVars, DbVars, Committed,
                   RawJson, extract_date_sk, queue, HistVars>>

NextInc ==
    \/ \E file \in Files : StartInc(file)
    \/ \E fail \in BOOLEAN : HandleItem(fail)
    \/ \E fail \in BOOLEAN : FinishInc(fail)
    \/ NextDay

SpecInc == InitInc /\ [][NextInc]_vars

----------------------------------------------------------------------------
(* transformer.py: TikTokTransformer *)

MaxBatch == 3

\* items of a batch: with and without the ids, two authors, two texts of one video
BatchItems ==
    {[BaseItem EXCEPT !.cnt[1] = Bad]} \cup
    {BaseItem, [BaseItem EXCEPT !.id = None], [BaseItem EXCEPT !.aid = None],
     [BaseItem EXCEPT !.aid = "a2"], [BaseItem EXCEPT !.text = "t2"],
     [BaseItem EXCEPT !.cnt = Bump(BaseCounts, 1)]}

Batches == UNION {[1..n -> BatchItems] : n \in 1..MaxBatch}

\* str(author_meta.get('id', '')): the text "None" for a null id, '' without the key
Str(x) == IF x = Null THEN "str(None)" ELSE x

\* the candidates of an item, empty when a required field is missing
extract_author(it) ==
    IF it.aid \in {None, NoId} THEN {}
    ELSE {[author_id |-> Str(it.aid), author_name |-> it.nick, avatar |-> it.avatar]}

\* duration is video_meta.get('duration', 0), handed on as it is
extract_video(it) ==
    IF it.id = None \/ it.aid \in {None, NoId} THEN {}
    ELSE {[video_id |-> it.id, author_id |-> Str(it.aid), text_content |-> it.text,
           duration |-> it.dur, create_time |-> it.ctime, web_video_url |-> it.url]}

\* an int() that raises is caught by except Exception: None
extract_interaction(it) ==
    IF it.id = None \/ (\E j \in 1..Len(it.cnt) : it.cnt[j] = Bad) THEN {}
    ELSE {[video_id |-> it.id, cnt |-> it.cnt]}

\* transform_batch: the three lists after the loop over json_data
transform_batch(json_data) ==
    LET F[i \in 0..Len(json_data)] ==
            IF i = 0
            THEN [authors |-> <<>>, videos |-> <<>>, interactions |-> <<>>,
                  author_ids_seen |-> {}, video_ids_seen |-> {}]
            ELSE LET p == F[i - 1]
                     author == extract_author(json_data[i])
                     video == extract_video(json_data[i])
                     interaction == extract_interaction(json_data[i])
                     newA == author # {} /\ The(author).author_id \notin p.author_ids_seen
                     newV == video # {} /\ The(video).video_id \notin p.video_ids_seen
                 IN  [authors |-> IF newA THEN Append(p.authors, The(author))
                                  ELSE p.authors,
                      author_ids_seen |-> IF newA
                                          THEN p.author_ids_seen \cup {The(author).author_id}
                                          ELSE p.author_ids_seen,
                      videos |-> IF newV THEN Append(p.videos, The(video)) ELSE p.videos,
                      video_ids_seen |-> IF newV
                                         THEN p.video_ids_seen \cup {The(video).video_id}
                                         ELSE p.video_ids_seen,
                      interactions |-> IF interaction # {}
                                       THEN Append(p.interactions, The(interaction))
                                       ELSE p.interactions]
        r == F[Len(json_data)]
    IN  [authors |-> r.authors, videos |-> r.videos, interactions |-> r.interactions]

InitTransform == impl = "transform" /\ InitCommon

CallTransform(json_data) ==
    /\ arg.n < MaxCalls
    /\ arg' = [fn |-> "transform_batch", json_data |-> json_data,
               out |-> transform_batch(json_data), n |-> arg.n + 1]
    /\ UNCHANGED <<LogVars, EnvVars, DbVars, Committed, cache, RawJson, results, nfail,
                   PassState>>

NextTransform == \E json_data \in Batches : CallTransform(json_data)

SpecTransform == InitTransform /\ [][NextTransform]_vars

\* the versioning pass and the upserts of UpsertManager
InitWriters == impl \in {"scd2", "um"} /\ InitCommon
NextWriters == (impl = "scd2" /\ Next) \/ (impl = "um" /\ NextUM)
SpecWriters == InitWriters /\ [][NextWriters]_vars

\* the versioning pass and the transformer
InitItems == impl \in {"scd2", "transform"} /\ InitCommon
NextItems == (impl = "scd2" /\ Next) \/ (impl = "transform" /\ NextTransform)
SpecItems == InitItems /\ [][NextItems]_vars

----------------------------------------------------------------------------
(* The loads of the calendar: db.py DateDimManager, loader.py, ensure_date_dim.py *)

MaxLines == 2

\* the dates of the files: one shaped YYYY-MM-DD, one with no dash, one of ten characters
\* with two dashes that is not shaped YYYY-MM-DD
FullDates == {"2026-01-01", "2026/01/01", "01-02-2026"}

len(d) == 10
count(d) == IF d = "2026/01/01" THEN 0 ELSE 2
Shaped(d) == d = "2026-01-01"

\* a line of the file: its number of columns, its first two columns, its 17th column
\* (holiday in a file of 18 columns) and its 19th (holiday in a file of 20 columns)
GoodRow == [cols |-> 18, date_sk |-> 1, full_date |-> "2026-01-01", c17 |-> "h1",
            c19 |-> None]

CsvRows ==
    {[GoodRow EXCEPT !.date_sk = k, !.c17 = h] : k \in 1..2, h \in {"h1", "h2"}}
    \cup {[GoodRow EXCEPT !.cols = 20, !.c17 = "q1", !.c19 = "h1"],
          [GoodRow EXCEPT !.cols = 17], [GoodRow EXCEPT !.date_sk = Bad],
          [GoodRow EXCEPT !.full_date = "2026/01/01"],
          [GoodRow EXCEPT !.full_date = "01-02-2026"]}

CsvFiles == UNION {[1..n -> CsvRows] : n \in 0..MaxLines}

\* the row of DateDim a line becomes, with its holiday
DateRow(row, holiday) ==
    [date_sk |-> row.date_sk, full_date |-> row.full_date, holiday |-> holiday]

\* the lines that pass the three tests of the validation loop
Validated(row) ==
    /\ ~(row.cols < 18)
    /\ row.date_sk # Bad
    /\ ~(len(row.full_date) # 10 \/ count(row.full_date) # 2)

valid_records(file) == SelectSeq(file, Validated)

\* two lines of the list carry the same date_sk, the primary key
DuplicateKey(rows) ==
    \E i, j \in 1..Len(rows) : i # j /\ rows[i].date_sk = rows[j].date_sk

CalFailModes == {"none", "missing", "truncate", "insert", "commit"}

\* load_date_dim_with_validation: the table and what the call returns. TRUNCATE TABLE
\* is committed as it runs, so the rollback after a failed insert or commit brings back
\* no row.
load_date_dim_with_validation(dim, file, fail) ==
    LET valid == valid_records(file)
        counted == [total_records |-> Len(file), loaded_records |-> 0,
                    skipped_records |-> Len(file) - Len(valid)]
    IN  IF fail = "missing"
        THEN [dim |-> dim, success |-> FALSE,
              stats |-> [total_records |-> 0, loaded_records |-> 0, skipped_records |-> 0]]
        ELSE IF valid = <<>> \/ fail = "truncate"
        THEN [dim |-> dim, success |-> FALSE, stats |-> counted]
        ELSE IF fail \in {"insert", "commit"} \/ DuplicateKey(valid)
        THEN [dim |-> {}, success |-> FALSE, stats |-> counted]
        ELSE [dim |-> {DateRow(valid[i], valid[i].c17) : i \in 1..Len(valid)},
              success |-> TRUE,
              stats |-> [counted EXCEPT !.loaded_records = Len(valid)]]

\* INSERT ... ON DUPLICATE KEY UPDATE: the row of the key is the new one
Upserted(dim, r) == {q \in dim : q.date_sk # r.date_sk} \cup {r}

\* INSERT IGNORE: a row whose key is stored is left out
Ignored(dim, r) == IF \E q \in dim : q.date_sk = r.date_sk THEN dim ELSE dim \cup {r}

\* loader.py load_date_dim_from_csv: each line whose numbers parse is upserted, its
\* holiday read from the 19th column
load_date_dim_from_csv(dim, file) ==
    LET F[i \in 0..Len(file)] ==
            IF i = 0 THEN dim
            ELSE IF file[i].date_sk = Bad THEN F[i - 1]
            ELSE Upserted(F[i - 1], DateRow(file[i], file[i].c19))
    IN  F[Len(file)]

\* ensure_date_dim.py: a table with rows is left alone; an empty one takes the lines of
\* 20 columns whose numbers parse
ensure_date_dim_ready(dim, file) ==
    LET F[i \in 0..Len(file)] ==
            IF i = 0 THEN dim
            ELSE IF file[i].cols # 20 \/ file[i].date_sk = Bad THEN F[i - 1]
            ELSE Ignored(F[i - 1], DateRow(file[i], file[i].c19))
    IN  IF dim # {} THEN dim ELSE F[Len(file)]

\* ensure_date_dim.py: the connections ensure_date_dim_ready tries before it gives up
max_retries == 30

RECURSIVE wait_for_database(_, _)
\* the retry loop of ensure_date_dim_ready from retry_count on, where the first `down`
\* calls of get_db_connection return None: the count it ends with, and whether it ended
\* by break (connected) or by sys.exit(1)
wait_for_database(retry_count, down) ==
    IF retry_count < max_retries
    THEN LET n == retry_count + 1
         IN  IF n > down THEN [retry_count |-> n, connected |-> TRUE]
             ELSE IF n < max_retries THEN wait_for_database(n, down)
             ELSE [retry_count |-> n, connected |-> FALSE]
    ELSE [retry_count |-> retry_count, connected |-> TRUE]

\* what one call of ensure_date_dim_ready meets: the number of failing connections at
\* its start, and after them no failure, check_date_dim_exists_and_populated answering
\* (False, 0) (no connection, an Error, no table), or load_date_dim_from_csv answering
\* False (no file, no connection, an Error)
NoTrouble == [down |-> 0, fail |-> "none"]

EnsureCases ==
    {[down |-> d, fail |-> "none"] : d \in {0, max_retries - 1, max_retries}}
    \cup {[down |-> 0, fail |-> f] : f \in {"check", "load"}}

\* one call of ensure_date_dim_ready: DateDim after it, what it returns ("True") or
\* that it ends the process by sys.exit(1) ("exit"), and the connections its loop tried
ensure_date_dim_ready_call(dim, file, c) ==
    LET w == wait_for_database(0, c.down)
        out(d, ret) == [dim |-> d, ret |-> ret, retry_count |-> w.retry_count]
    IN  IF ~w.connected \/ c.fail = "check" THEN out(dim, "exit")
        ELSE IF dim # {} THEN out(dim, "True")
        ELSE IF c.fail = "load" THEN out(dim, "exit")
        ELSE out(ensure_date_dim_ready(dim, file), "True")

InitCal == impl = "calendar" /\ DateDim = {} /\ InitState /\ NoCrawl

CalUnchanged ==
    UNCHANGED <<LogVars, impl, today, DbVars, Committed, cache, RawJson, results, nfail,
                PassState, control_log, storage>>

CallLoadValidated(file, fail) ==
    /\ arg.n < MaxCalls
    /\ LET r == load_date_dim_with_validation(DateDim, file, fail)
       IN  /\ DateDim' = r.dim
           /\ arg' = [fn |-> "load_date_dim_with_validation", file |-> file,
                      fail |-> fail, success |-> r.success, stats |-> r.stats,
                      n |-> arg.n + 1]
    /\ CalUnchanged

CallLoadFromCsv(file) ==
    /\ arg.n < MaxCalls
    /\ DateDim' = load_date_dim_from_csv(DateDim, file)
    /\ arg' = [fn |-> "load_date_dim_from_csv", file |-> file, n |-> arg.n + 1]
    /\ CalUnchanged

CallEnsureReady(file, c) ==
    /\ arg.n < MaxCalls
    /\ LET r == ensure_date_dim_ready_call(DateDim, file, c)
       IN  /\ DateDim' = r.dim
           /\ arg' = [fn |-> "ensure_date_dim_ready", file |-> file, down |-> c.down,
                      retry_count |-> r.retry_count, ret |-> r.ret, n |-> arg.n + 1]
    /\ CalUnchanged

NextCal ==
    \/ \E file \in CsvFiles, fail \in CalFailModes : CallLoadValidated(file, fail)
    \/ \E file \in CsvFiles : CallLoadFromCsv(file)
    \/ \E file \in CsvFiles : CallEnsureReady(file, NoTrouble)

SpecCal == InitCal /\ [][NextCal]_vars

\* the readiness check alone, with the failures it can meet
InitEnsure == impl = "ensure" /\ DateDim = {} /\ InitState /\ NoCrawl

NextEnsure == \E file \in CsvFiles, c \in EnsureCases : CallEnsureReady(file, c)

SpecEnsure == InitEnsure /\ [][NextEnsure]_vars

----------------------------------------------------------------------------
(* The three upserts of a Video, given the same stored row and the same candidate *)

BaseVideo ==
    [videoID |-> "v1", authorID |-> "a1", TextContent |-> "t1", Duration |-> 10,
     CreateTime |-> "c1", WebVideoUrl |-> "u1"]

\* the video and the videos that differ from it in one field
VideoData ==
    {BaseVideo, [BaseVideo EXCEPT !.authorID = "a2"], [BaseVideo EXCEPT !.TextContent = "t2"],
     [BaseVideo EXCEPT !.Duration = 20], [BaseVideo EXCEPT !.CreateTime = "c2"],
     [BaseVideo EXCEPT !.WebVideoUrl = "u2"]}

InitVersioners == impl = "versioners" /\ InitCommon

\* the outcome of each upsert for the candidate, the table holding the stored row
CallVersioners(stored, candidate) ==
    /\ arg.n < MaxCalls
    /\ LET V == {VideoRow(stored, today)}
       IN  arg' = [fn |-> "upsert_video", stored |-> stored, candidate |-> candidate,
                   manager |-> UpsertManager_upsert_video(V, candidate, today,
                                   {stored.videoID}, V, FALSE).out,
                   v1 |-> upsert_video_v1(V, candidate, today, FALSE).out,
                   scd2 |-> upsert_video_scd2(V, DateDim, today, candidate, FALSE).out,
                   n |-> arg.n + 1]
    /\ UNCHANGED <<LogVars, EnvVars, DbVars, Committed, cache, RawJson, results, nfail,
                   PassState>>

NextVersioners == \E stored \in VideoData, candidate \in VideoData :
                     CallVersioners(stored, candidate)

SpecVersioners == InitVersioners /\ [][NextVersioners]_vars

----------------------------------------------------------------------------
(* The extraction of the candidates of one item, by each of the extractors *)

\* safe_int: the default for None and for what int() does not parse
safe_int(value, default) == IF value = Bad THEN default ELSE value

\* loader.py extract_record, with the tests compare_and_load_incremental makes on it:
\* no video_id, the item is skipped; no author_id, no author is written
extract_record(it) ==
    [video_id |-> it.id,
     author_id |-> IF it.aid \in {None, Null, NoId} THEN None ELSE it.aid,
     author_name |-> it.nick, avatar |-> it.avatar, text |-> it.text,
     duration |-> safe_int(it.dur, 0), create_time |-> it.ctime, web_url |-> it.url,
     cnt |-> [j \in 1..Len(it.cnt) |-> safe_int(it.cnt[j], 0)]]

Extractors == {"transformer", "scd2", "loader"}

\* the three candidates an extractor makes of an item
Extract(who, it) ==
    CASE who = "transformer" ->
           [author |-> extract_author(it), video |-> extract_video(it),
            interaction |-> extract_interaction(it)]
      [] who = "scd2" ->
           [author |-> extract_author_data(it), video |-> extract_video_data(it),
            interaction |-> extract_interaction_data(it)]
      [] who = "loader" ->
           LET rec == extract_record(it)
           IN  [author |-> IF rec.video_id = None \/ rec.author_id = None THEN {}
                           ELSE {[author_id |-> rec.author_id,
                                  author_name |-> rec.author_name, avatar |-> rec.avatar]},
                video |-> IF rec.video_id = None THEN {}
                          ELSE {[video_id |-> rec.video_id, author_id |-> rec.author_id,
                                 text |-> rec.text, duration |-> rec.duration,
                                 create_time |-> rec.create_time, web_url |-> rec.web_url]},
                interaction |-> IF rec.video_id = None THEN {}
                                ELSE {[video_id |-> rec.video_id, cnt |-> rec.cnt]}]

\* items with and without the ids, with numbers that parse and that do not
ExtractItems ==
    {[BaseItem EXCEPT !.id = i, !.aid = a, !.dur = d, !.cnt = c] :
        i \in {"v1", None}, a \in {"a1", None, Null, NoId}, d \in {10, Bad},
        c \in {BaseCounts, [BaseCounts EXCEPT ![1] = Bad], [BaseCounts EXCEPT ![5] = Bad]}}

InitExtract == impl = "extract" /\ InitCommon

CallExtract(who, it) ==
    /\ arg.n < MaxCalls
    /\ LET r == Extract(who, it)
       IN  arg' = [fn |-> "extract", who |-> who, item |-> it, author |-> r.author,
                   video |-> r.video, interaction |-> r.interaction, n |-> arg.n + 1]
    /\ UNCHANGED <<LogVars, EnvVars, DbVars, Committed, cache, RawJson, results, nfail,
                   PassState>>

NextExtract == \E who \in Extractors, it \in ExtractItems : CallExtract(who, it)

SpecExtract == InitExtract /\ [][NextExtract]_vars

----------------------------------------------------------------------------
(* app.py: start_polling, and main_job.job which it triggers *)

MaxCrawls == 2

\* SELECT file_name FROM control_log WHERE status = 'SUCCESS' ORDER BY id DESC LIMIT 10
RecentLimit == 10

\* what the storage directory holds under a file name: no file, a file that open() or
\* read() fails on, a file of white space, a file json.loads rejects, the array [],
\* one object, or an array of two objects
FileKinds == {"missing", "unreadable", "empty", "invalid", "empty_array", "object", "array"}

\* the objects json.loads finds in a file
FileObjects(f, kind) ==
    LET it == IF f = CrawlFiles[1] THEN BaseItem
              ELSE [BaseItem EXCEPT !.cnt = Bump(BaseCounts, 1)]
    IN  CASE kind = "object" -> <<it>>
          [] kind = "array"  -> <<it, [it EXCEPT !.nick = "n2"]>>
          [] OTHER           -> <<>>

\* the file names of the last RecentLimit rows of control_log with status SUCCESS
recent_crawls(log) ==
    LET ok == SelectSeq(log, LAMBDA r : r.status = "SUCCESS")
    IN  {ok[i].file_name : i \in {k \in 1..Len(ok) : k > Len(ok) - RecentLimit}}

\* SELECT filename FROM RawJson WHERE filename IN (recent_crawls)
loaded_files(raw) == {raw[i].filename : i \in 1..Len(raw)}

\* check_new_crawl_data: some recent crawl file has no row in RawJson;
\* except Exception: return False
check_new_crawl_data(log, raw, fail) ==
    IF fail THEN FALSE ELSE \E crawl_file \in recent_crawls(log) : crawl_file \notin loaded_files(raw)

\* SELECT DISTINCT filename FROM RawJson WHERE load_status IN ('success', 'processed')
processed_files(raw) ==
    {raw[i].filename : i \in {k \in 1..Len(raw) : raw[k].load_status \in {"success", "processed"}}}

\* the row the procedure process_raw_record writes for one object of a file
RawFileRecord(filename, payload, idx) ==
    [filename |-> filename, source_line |-> idx, content |-> payload, load_status |-> "success"]

\* job, step 2: the loop over the files of the storage directory, in sorted order;
\* fail: every call of process_raw_record raises (rollback, errors += 1)
load_raw_files(raw, dir, fail) ==
    LET done == processed_files(raw)
        F[i \in 0..Len(CrawlFiles)] ==
            IF i = 0 THEN [raw |-> raw, processed |-> 0, errors |-> 0]
            ELSE LET f == CrawlFiles[i]
                     objs == FileObjects(f, dir[f])
                     p == F[i - 1]
                 IN  IF dir[f] = "missing" \/ f \in done \/ dir[f] = "empty" THEN p
                     ELSE IF dir[f] \in {"unreadable", "invalid"}
                     THEN [p EXCEPT !.errors = @ + 1]
                     ELSE IF fail THEN [p EXCEPT !.errors = @ + Len(objs)]
                     ELSE [raw |-> p.raw \o [j \in 1..Len(objs) |-> RawFileRecord(f, objs[j], j)],
                           processed |-> p.processed + Len(objs), errors |-> p.errors]
    IN  F[Len(CrawlFiles)]

\* process_all_raw_json as one call: the tables, the raw records, the counters and the
\* number of records taken through after the loop over the 'success' records
process_all_raw_json(A, V, I, dim, day, raw) ==
    LET ids == SuccessIds(raw)
        F[k \in 0..Len(ids)] ==
            IF k = 0 THEN [A |-> A, V |-> V, I |-> I, raw |-> raw, stats |-> ZeroStats, n |-> 0]
            ELSE LET p == F[k - 1]
                     i == ids[k]
                     r == process_json_record(p.A, p.V, p.I, dim, day, raw[i].content, {})
                 IN  [A |-> r.A, V |-> r.V, I |-> r.I,
                      raw |-> IF r.res.error THEN p.raw
                              ELSE [p.raw EXCEPT ![i].load_status = "processed"],
                      stats |-> Count(Count(Count(p.stats, "authors", r.res.author),
                                            "videos", r.res.video),
                                      "interactions", r.res.interaction),
                      n |-> IF r.res.error THEN p.n ELSE p.n + 1]
    IN  F[Len(ids)]

\* job, step 1.5: the calendar is loaded when DateDim is empty
load_date_dim_once_if_empty(dim) == IF dim = {} THEN Days ELSE dim

\* where an exception can strike one run of job: nowhere, in get_db_conn (job raises),
\* or in every call of process_raw_record
JobFailModes == {"none", "connect", "proc"}

InitPoll ==
    /\ impl = "poll"
    /\ DateDim \in {lo..hi : lo \in 1..(MaxDay + 1), hi \in 0..MaxDay}
    /\ InitState
    /\ NoCrawl

PollUnchanged ==
    UNCHANGED <<impl, today, extract_date_sk, cache, arg, queue, results, stats, HistVars,
                processed_records, error_records>>

\* the crawler ends a crawl: the file name goes to control_log with the status of the
\* crawl, and the storage directory holds under that name what the crawl left there
Crawl(f, kind, status) ==
    /\ Len(control_log) < MaxCrawls
    /\ control_log' = Append(control_log, [file_name |-> f, status |-> status])
    /\ storage' = [storage EXCEPT ![f] = kind]
    /\ UNCHANGED <<DateDim, DbVars, Committed, RawJson, LoadLog, report, nfail, pc>>
    /\ PollUnchanged

\* the check of start_polling before its loop; pc = "idle": the service has just started
StartupCheck(fail) ==
    /\ pc = "idle"
    /\ fail => nfail < MaxFail
    /\ pc' = IF check_new_crawl_data(control_log, RawJson, fail) THEN "startup_job" ELSE "poll"
    /\ nfail' = IF fail THEN nfail + 1 ELSE nfail
    /\ UNCHANGED <<DateDim, DbVars, Committed, RawJson, LoadLog, report, control_log, storage>>
    /\ PollUnchanged

\* the check at the head of a turn of the loop of start_polling
PollCheck(fail) ==
    /\ pc = "poll"
    /\ fail => nfail < MaxFail
    /\ pc' = IF check_new_crawl_data(control_log, RawJson, fail) THEN "job" ELSE "sleep"
    /\ nfail' = IF fail THEN nfail + 1 ELSE nfail
    /\ UNCHANGED <<DateDim, DbVars, Committed, RawJson, LoadLog, report, control_log, storage>>
    /\ PollUnchanged

\* one run of job(), triggered before the loop or in it; an exception of job ends the
\* service before the loop and is caught in the loop
job(fail) ==
    /\ pc \in {"startup_job", "job"}
    /\ fail # "none" => nfail < MaxFail
    /\ nfail' = IF fail # "none" THEN nfail + 1 ELSE nfail
    /\ pc' = IF pc = "job" THEN "sleep" ELSE IF fail = "connect" THEN "dead" ELSE "poll"
    /\ IF fail = "connect"
       THEN UNCHANGED <<DateDim, DbVars, Committed, RawJson, LoadLog, report>>
       ELSE /\ DateDim' = load_date_dim_once_if_empty(DateDim)
            /\ IF \A f \in FileNames : storage[f] = "missing"
               THEN UNCHANGED <<DbVars, Committed, RawJson, LoadLog, report>>
               ELSE LET l == load_raw_files(RawJson, storage, fail = "proc")
                        e == process_all_raw_json(Authors, Videos, Interactions, DateDim',
                                                  today, l.raw)
                    IN  /\ LoadLog' = insert_load_log(<<>>, "RawJson", "INSERT", l.processed,
                                          IF l.errors = 0 THEN "success"
                                          ELSE "partial_success")
                        /\ Authors' = e.A /\ Videos' = e.V /\ Interactions' = e.I
                        /\ Committed' = Db(e.A, e.V, e.I)
                        /\ RawJson' = e.raw
                        /\ report' = IF SuccessIds(l.raw) = <<>> THEN report
                                     ELSE log_final_stats(e.n, e.stats)
    /\ UNCHANGED <<control_log, storage>>
    /\ PollUnchanged

\* time.sleep(60) returns
Sleep ==
    /\ pc = "sleep"
    /\ pc' = "poll"
    /\ UNCHANGED <<DateDim, DbVars, Committed, RawJson, LoadLog, report, nfail, control_log,
                   storage>>
    /\ PollUnchanged

\* KeyboardInterrupt in the loop: break
Interrupt ==
    /\ pc \in {"poll", "sleep"}
    /\ pc' = "dead"
    /\ UNCHANGED <<DateDim, DbVars, Committed, RawJson, LoadLog, report, nfail, control_log,
                   storage>>
    /\ PollUnchanged

NextPoll ==
    \/ \E f \in FileNames, kind \in FileKinds, status \in {"SUCCESS", "FAILED"} :
          Crawl(f, kind, status)
    \/ \E fail \in BOOLEAN : StartupCheck(fail)
    \/ \E fail \in BOOLEAN : PollCheck(fail)
    \/ \E fail \in JobFailModes : job(fail)
    \/ Sleep
    \/ Interrupt

SpecPoll == InitPoll /\ [][NextPoll]_vars

PollPositions == {"idle", "startup_job", "poll", "job", "sleep", "dead"}

\* the statement the service is at returns and the service moves on to its next
\* position: a step of StartupCheck, PollCheck, job or Sleep, or the Interrupt
Advance == pc # "dead" /\ pc' \in PollPositions \ {pc}

\* the service runs on unless it is interrupted: each check and each run of job returns,
\* and the sleep ends; nothing makes the crawler crawl
SpecPollLive == SpecPoll /\ WF_pc(Advance)

----------------------------------------------------------------------------
(* Properties of the pass of etl_processor_scd2.py *)

\* a step of the loop that handles the record at the head of the queue, no step raising
HandlesCleanly == pc = "run" /\ queue # <<>> /\ pc' = "run" /\ queue' = Tail(queue)
                  /\ nfail' = nfail

Skipped(res) ==
    /\ ~res.error
    /\ res.author \in {None, "NO_CHANGE"}
    /\ res.video \in {None, "NO_CHANGE"}
    /\ res.interaction \in {None, "NO_CHANGE"}

\* C1: a further pass over the input handled last (same or later day, nothing written in
\* between) inserts and updates no row of Authors, Videos, VideoInteractions, and every
\* outcome it reports is NO_CHANGE.
C1_Idempotence ==
    [][(HandlesCleanly /\ cur # 0 /\ RawJson[Head(queue)].content = RawJson[cur].content)
        => (DbVars' = DbVars /\ Skipped(results'))]_vars

AuthorRows(A, a) == {r \in A : r.authorID = a}

\* C2: the number of Authors rows of a key equals the number of distinct days on which a
\* pass saw a tracked attribute differ from the latest stored row (first sighting
\* included), whether or not the day has a DateDim row.
C2_MonotonicHistory ==
    \A a \in AuthorIds : Cardinality(AuthorRows(Authors, a)) = Cardinality(changeDays[a])

\* C3: passes of one day with differing tracked values leave exactly one row for the
\* key and the day, holding the values of the last pass.
C3_SameDayCollapse ==
    \A a \in AuthorIds :
        differed[a] =>
            LET rows == {r \in AuthorRows(Authors, a) : DayOf(r.extract_date_sk) = today}
            IN  Cardinality(rows) = 1 /\ \A r \in rows : {Tracked(r)} = lastToday[a]

\* the item the step handles
Handled == RawJson[Head(queue)].content

\* the stored video row and the item agree on every tracked field of a video
SameVideo(r, it) ==
    /\ r.authorID = it.aid /\ r.TextContent = it.text /\ r.Duration = it.dur
    /\ r.CreateTime = it.ctime /\ r.WebVideoUrl = it.url

\* C4: a pass on a later day over an item whose video fields equal the stored Video row
\* and whose counters differ from the stored Interaction row leaves the Video row as it
\* is (date key included, outcome NO_CHANGE) and leaves one Interaction row for the
\* video, holding the new counters and today's date key (outcome UPDATE).
C4_TwoDayScenario ==
    [][(/\ HandlesCleanly
        /\ Handled.id # None /\ Handled.aid # None
        /\ \E v \in Videos : /\ v.videoID = Handled.id /\ SameVideo(v, Handled)
                              /\ DayOf(v.create_date_sk) < today
        /\ \E x \in Interactions : x.videoID = Handled.id /\ x.cnt # Handled.cnt)
       => (/\ Videos' = Videos
           /\ results'.video = "NO_CHANGE"
           /\ results'.interaction = "UPDATE"
           /\ \A x \in Interactions' :
                  x.videoID = Handled.id
                      => x.cnt = Handled.cnt /\ DayOf(x.interaction_date_sk) = today
           /\ Cardinality({x \in Interactions' : x.videoID = Handled.id}) = 1)]_vars

\* the scenario of C4 has happened: Video v1 keeps day 1, its Interaction row holds
\* digg 15 under the key of day 2
C4_Witness ==
    /\ pc = "run" /\ today = 2
    /\ results.video = "NO_CHANGE" /\ results.interaction = "UPDATE"
    /\ \E v \in Videos : v.videoID = "v1" /\ v.authorID = "a1"
                          /\ DayOf(v.create_date_sk) = 1
    /\ \E x \in Interactions : x.videoID = "v1" /\ x.cnt = Bump(BaseCounts, 1)
                                /\ DayOf(x.interaction_date_sk) = 2

----------------------------------------------------------------------------
(* Properties of both processors *)

\* a turn of the loop, whatever raised in it
HandleStep == pc = "run" /\ queue # <<>> /\ queue' = Tail(queue) /\ pc' # "dead"

VideoKeys(T) == {r.videoID : r \in T}

----------------------------------------------------------------------------
(* Properties of UpsertManager *)

\* a call of fn is made in this step, with a snapshot of the stored row, and does not raise
Calls(fn) == arg'.n = arg.n + 1 /\ arg'.fn = fn /\ arg'.snap /\ nfail' = nfail

\* C5: for a video key that has an Interaction row, the outcome is SKIP exactly when the
\* five counters equal the stored ones, whatever the day, and UPDATE otherwise; after an
\* UPDATE the row holds the five new counters and the date key of the run.
C5_InteractionDecisionRule ==
    [][(/\ Calls("upsert_interaction")
        /\ arg'.it.id \in cache.interactions
        /\ ExistingRow(Interactions, arg'.it.id) # {})
       => LET stored == The(ExistingRow(Interactions, arg'.it.id))
              same == stored.cnt = arg'.it.cnt
          IN  /\ results'.interaction = IF same THEN "SKIP" ELSE "UPDATE"
              /\ ~same => ExistingRow(Interactions', arg'.it.id)
                              = {InteractionRow([videoID |-> arg'.it.id,
                                                 cnt |-> arg'.it.cnt], today)}]_vars

\* C6: when upsert_author or upsert_video reports UPDATE for a key whose single row
\* carries an earlier or equal date key, the row afterwards holds the candidate's
\* attribute values and today's date key.
C6_OverwriteInPlace ==
    [][/\ (/\ Calls("upsert_author")
           /\ results'.author = "UPDATE"
           /\ Cardinality(AuthorRows(Authors, arg'.it.aid)) = 1
           /\ \A r \in AuthorRows(Authors, arg'.it.aid) : r.extract_date_sk <= today)
          => AuthorRows(Authors', arg'.it.aid)
                 = {AuthorRow(The(extract_author_data(arg'.it)), today)}
       /\ (/\ Calls("upsert_video")
           /\ results'.video = "UPDATE"
           /\ Cardinality(ExistingRow(Videos, arg'.it.id)) = 1
           /\ \A r \in ExistingRow(Videos, arg'.it.id) : r.create_date_sk <= today)
          => \A r \in ExistingRow(Videos', arg'.it.id) :
                 /\ r.TextContent = arg'.it.text /\ r.Duration = arg'.it.dur
                 /\ r.CreateTime = arg'.it.ctime /\ r.WebVideoUrl = arg'.it.url
                 /\ r.create_date_sk = today]_vars

----------------------------------------------------------------------------
(* Properties of compare_and_load_incremental *)

\* C7: a candidate whose key is not in the identity set is inserted as one row tagged
\* with today's date key, and its key is in the set from then on, so that the batch does
\* not insert the key again.
C7_InsertRule ==
    [][(/\ pc = "run" /\ queue # <<>> /\ queue' = Tail(queue) /\ nfail' = nfail
        /\ Head(queue).id # None
        /\ Head(queue).id \notin cache.videos)
       => /\ results'.video = "INSERT"
          /\ Head(queue).id \in cache'.videos
          /\ Cardinality(ExistingRow(Videos', Head(queue).id)) = 1
          /\ \A r \in ExistingRow(Videos', Head(queue).id) : r.create_date_sk = today]_vars

----------------------------------------------------------------------------
(* Properties of RawJsonManager *)

RawIds(raw) == {raw[i].raw_json_id : i \in 1..Len(raw)}
NewRecords(raw, after) == {after[i] : i \in {k \in 1..Len(after) :
                                                after[k].raw_json_id \notin RawIds(raw)}}

RECURSIVE Absent(_, _)
\* the items of a payload whose key is not in ids
Absent(content, ids) ==
    IF content = <<>> THEN <<>>
    ELSE IF Head(content).id \in ids THEN Absent(Tail(content), ids)
         ELSE <<Head(content)>> \o Absent(Tail(content), ids)

\* C10: insert_raw_json with a SUCCESS payload of N items, K of them with a key that is
\* present among the SUCCESS raw records, persists exactly the other N-K items, in one
\* new raw record, and persists no item of a present key again.
C10_IngestDedupCount ==
    [][(arg'.n = arg.n + 1 /\ arg'.fn = "insert_raw_json" /\ arg'.status = "SUCCESS")
       => LET fresh == Absent(arg'.content, StoredIds(RawJson))
          IN  {r.content : r \in NewRecords(RawJson, RawJson')}
                  = IF fresh = <<>> THEN {} ELSE {fresh}]_vars

\* a call of insert_raw_json with a SUCCESS payload in which no database Error struck
IngestStep ==
    /\ arg'.n = arg.n + 1 /\ arg'.fn = "insert_raw_json" /\ arg'.status = "SUCCESS"
    /\ nfail' = nfail

\* C11: across an ingest that succeeds, every natural key that a SUCCESS raw record
\* covered before the call is still covered by a SUCCESS raw record after it.
C11_NoRawDataLoss ==
    [][IngestStep => StoredIds(RawJson) \subseteq StoredIds(RawJson')]_vars

\* the keys of a payload that the SUCCESS raw records hold already
Seen(content, raw) == ItemIds(content) \cap StoredIds(raw)
Removed(raw, after) == {raw[i] : i \in {k \in 1..Len(raw) :
                                           raw[k].raw_json_id \notin RawIds(after)}}

\* C12: an ingest removes only raw records all of whose natural keys are in the SEEN
\* set of that ingest; a record that holds a key outside the SEEN set stays.
C12_DeleteExclusivity ==
    [][IngestStep => \A r \in Removed(RawJson, RawJson') :
                        ItemIds(r.content) \subseteq Seen(arg'.content, RawJson)]_vars

\* the SUCCESS raw records that reference natural key k
Referencing(raw, k) ==
    {i \in 1..Len(raw) : raw[i].load_status = "SUCCESS" /\ k \in ItemIds(raw[i].content)}

\* C13: after any sequence of insert_raw_json calls from the empty raw store, at most
\* one SUCCESS raw record references a given natural key.
C13_RawUniqueness ==
    impl = "raw" => \A k \in RawKeys : Cardinality(Referencing(RawJson, k)) <= 1

\* C14: a raw record whose status is FAILED holds no content.
C14_FailedStoresNothing ==
    \A i \in 1..Len(RawJson) :
        RawJson[i].load_status \in {"FAILED", "failed"} => RawJson[i].content = <<>>

\* C15: when today's date has no row in DateDim, a turn of the loop of the pass writes
\* and commits no Author, Video or Interaction row.
C15_DateRangeContainment ==
    [][(HandleStep /\ today \notin DateDim) => UNCHANGED <<DbVars, Committed>>]_vars

\* the date keys that the rows of the three tables carry
DateKeys ==
    {r.extract_date_sk : r \in Authors} \cup {r.create_date_sk : r \in Videos}
        \cup {r.interaction_date_sk : r \in Interactions}

\* C16: every row of Author, Video and Interaction carries a date key that is not null
\* and is the surrogate key of a DateDim row.
C16_DateKeyForeignKey == NullSk \notin DateKeys /\ DateKeys \subseteq DateDim

\* C17: a call of the load auditor, log_load or log_operation, returns to its caller
\* whatever it is handed and whatever fails inside: it never raises.
C17_AuditorNeverRaises ==
    arg.fn \in {"log_load", "log_operation"} => ~arg.raised

\* the counters of the table a load-log row is about
CountsOf(row) == stats[CHOOSE t \in Tables : TableName(t) = row.table_name]

\* C18: a load-log row written for a table at the end of a batch has a status of
\* SUCCESS exactly when the failed (ERROR) count of the table in the batch is 0, and of
\* PARTIAL otherwise.
C18_AuditStatusRule ==
    [][LoadLog' # LoadLog =>
         \A i \in 1..Len(LoadLog') :
            /\ LoadLog'[i].status \in {"SUCCESS", "success"}
                  <=> CountsOf(LoadLog'[i])["ERROR"] = 0
            /\ LoadLog'[i].status \in {"PARTIAL", "partial", "partial_success"}
                  <=> CountsOf(LoadLog'[i])["ERROR"] > 0]_vars

\* the run logged, for each table, its inserted, updated, skipped and failed counts
ReportedCounts ==
    /\ report # {}
    /\ \A t \in Tables : Outcomes \subseteq DOMAIN The(report).counts[t]

\* C19: a run that has started processing and is not killed ends, and at its end the
\* inserted, updated, skipped and failed counts of each table have been logged.
C19_RunEndsWithCounts ==
    (pc = "run") ~> (pc = "dead" \/ (pc = "idle" /\ ReportedCounts))

\* the candidates of a list are those of the first items of the batch that carry each
\* key: no key twice, and each candidate is what its first item yields
FirstSeenWins(list, key(_), extract(_), json_data) ==
    /\ \A i, j \in 1..Len(list) : key(list[i]) = key(list[j]) => i = j
    /\ \A i \in 1..Len(list) :
          \E k \in 1..Len(json_data) :
             /\ extract(json_data[k]) = {list[i]}
             /\ \A m \in 1..(k - 1) :
                   extract(json_data[m]) = {}
                       \/ key(The(extract(json_data[m]))) # key(list[i])

\* C20: each of the three lists transform_batch returns has at most one candidate per
\* natural key, the one extracted from the first item of the batch that carries the key.
C20_FirstSeenWins ==
    arg.fn = "transform_batch" =>
        LET AuthorKey(c) == c.author_id
            VideoKey(c) == c.video_id
        IN  /\ FirstSeenWins(arg.out.authors, AuthorKey, extract_author, arg.json_data)
            /\ FirstSeenWins(arg.out.videos, VideoKey, extract_video, arg.json_data)
            /\ FirstSeenWins(arg.out.interactions, VideoKey, extract_interaction,
                             arg.json_data)

\* C21: of an item whose numbers parse, the transformer and the versioning processor
\* leave the Author candidate out exactly when the item carries no author id, the Video
\* candidate exactly when it carries no content id, and make the Interaction candidate
\* exactly when they make the Video candidate.
C21_CandidatePresence ==
    (arg.fn = "extract" /\ arg.who \in {"transformer", "scd2"} /\ ~Unparsable(arg.item)) =>
        /\ arg.author = {} <=> arg.item.aid \in {None, Null, NoId}
        /\ arg.video = {} <=> arg.item.id = None
        /\ arg.interaction = {} <=> arg.video = {}

\* the item with 0 in the place of every number that does not parse
Zeroed(it) ==
    [it EXCEPT !.dur = IF @ = Bad THEN 0 ELSE @,
               !.cnt = [j \in 1..Len(it.cnt) |-> IF it.cnt[j] = Bad THEN 0 ELSE it.cnt[j]]]

\* C22: a duration or counter that does not parse becomes 0, and the Video and the
\* Interaction candidate are what the item yields with 0 in that field.
C22_BestEffortNumbers ==
    arg.fn = "extract" =>
        /\ arg.video = Extract(arg.who, Zeroed(arg.item)).video
        /\ arg.interaction = Extract(arg.who, Zeroed(arg.item)).interaction

\* the list holds a candidate with the key of candidate c
Holds(list, c, key(_)) == \E k \in 1..Len(list) : key(list[k]) = key(c)

\* every candidate that the items of the batch yield is in the lists that come back
AllSubmitted(json_data, out) ==
    LET AuthorKey(c) == c.author_id
        VideoKey(c) == c.video_id
    IN  \A i \in 1..Len(json_data) :
           LET it == json_data[i]
           IN  /\ \A c \in extract_author(it) : Holds(out.authors, c, AuthorKey)
               /\ \A c \in extract_video(it) : Holds(out.videos, c, VideoKey)
               /\ \A c \in extract_interaction(it) :
                     \E k \in 1..Len(out.interactions) : out.interactions[k] = c

C23_WitnessBatch ==
    /\ impl = "transform" /\ arg.fn = "transform_batch"
    /\ Len(arg.json_data) > 1
    /\ extract_interaction(arg.json_data[1]) = {} /\ extract_video(arg.json_data[1]) # {}
    /\ Len(arg.out.videos) > 0 /\ Len(arg.out.interactions) > 0

LoadsValidated == arg'.n = arg.n + 1 /\ arg'.fn = "load_date_dim_with_validation"

\* C24: when load_date_dim_with_validation returns, DateDim holds the valid lines of the
\* file if the call succeeded and the rows it held before the call if it failed.
C24_AtomicReplacement ==
    [][LoadsValidated =>
          IF arg'.success
          THEN DateDim' = {DateRow(valid_records(arg'.file)[i],
                                   valid_records(arg'.file)[i].c17) :
                              i \in 1..Len(valid_records(arg'.file))}
          ELSE DateDim' = DateDim]_vars

\* a line the load has to skip: fewer than 18 columns, a date_sk that is no number, or
\* a full_date that is not shaped YYYY-MM-DD
Invalid(row) == row.cols < 18 \/ row.date_sk = Bad \/ ~Shaped(row.full_date)

\* C25: load_date_dim_with_validation skips every line with fewer than 18 columns, a
\* non-numeric date_sk or a full_date not shaped YYYY-MM-DD and goes on; after a load
\* that succeeded loaded_records + skipped_records = total_records and loaded_records is
\* the number of rows of DateDim.
C25_LoadCounts ==
    [][(LoadsValidated /\ arg'.fail # "missing") =>
          /\ arg'.stats.skipped_records = Len(SelectSeq(arg'.file, Invalid))
          /\ arg'.success =>
                /\ arg'.stats.loaded_records + arg'.stats.skipped_records
                      = arg'.stats.total_records
                /\ arg'.stats.loaded_records = Cardinality(DateDim')]_vars

\* the counts alone: what C25 says of a load that succeeded
C25_CountsOnly ==
    [][(LoadsValidated /\ arg'.success) =>
          /\ arg'.stats.loaded_records + arg'.stats.skipped_records
                = arg'.stats.total_records
          /\ arg'.stats.loaded_records = Cardinality(DateDim')]_vars

\* C28: once DateDim has rows, no load of the calendar that meets no failure and no
\* readiness check changes or removes a row of it.
C28_CalendarImmutability ==
    [][(/\ DateDim # {}
        /\ arg'.n = arg.n + 1
        /\ arg'.fn = "load_date_dim_with_validation" => arg'.fail = "none")
          => DateDim \subseteq DateDim']_vars

\* C28 for the readiness check alone
C28_EnsureOnly ==
    [][(arg'.n = arg.n + 1 /\ arg'.fn = "ensure_date_dim_ready" /\ DateDim # {})
          => DateDim' = DateDim]_vars

C26_WitnessManager ==
    /\ impl = "um" /\ arg.fn = "upsert_interaction" /\ results.interaction = "UPDATE"
    /\ Cardinality(Interactions) = 1

Queued(q) == {q[k] : k \in 1..Len(q)}

UpsertFailed(res) == "ERROR" \in {res.author, res.video, res.interaction}

\* C29: the turn of the loop that handles a raw record marks it processed only if none
\* of the Author, Video and Interaction upserts made for it returned ERROR; a record
\* with a failed upsert keeps the status success.
C29_ProcessedOnlyWithoutError ==
    [][(impl = "scd2" /\ HandleStep /\ ~results'.error /\ UpsertFailed(results')) =>
          RawJson'[Head(queue)].load_status = "success"]_vars

\* C30: every Interaction row has the Video row of its video key and every Video row
\* the Author row of its author key; a turn of the loop writes no Video row when the
\* Author candidate was absent or its upsert returned ERROR, and no Interaction row when
\* the Video candidate was absent or its upsert returned ERROR.
C30_ReferentialIntegrity ==
    [][/\ \A r \in Interactions' : ExistingRow(Videos', r.videoID) # {}
       /\ \A v \in Videos' : \E a \in Authors' : a.authorID = v.authorID
       /\ (impl = "scd2" /\ HandleStep) =>
             /\ Videos' # Videos => results'.author \notin {None, "ERROR"}
             /\ Interactions' # Interactions => results'.video \notin {None, "ERROR"}]_vars

\* C30 without the rows of the tables: what a turn writes after a failed parent upsert
C30_AfterFailedParent ==
    [][(impl = "scd2" /\ HandleStep) =>
          /\ Videos' # Videos => results'.author # "ERROR"
          /\ Interactions' # Interactions => results'.video # "ERROR"]_vars

\* a call of one of the three upserts of UpsertManager
ManagerCall == arg'.n = arg.n + 1 /\ arg'.fn \in {"upsert_author", "upsert_video",
                                                  "upsert_interaction"}

\* the outcome the call reports, the identity set it was given, the key of its candidate
\* and the stored rows of that key
OutcomeOf == CASE arg'.fn = "upsert_author" -> results'.author
               [] arg'.fn = "upsert_video" -> results'.video
               [] OTHER -> results'.interaction

KnownKey == CASE arg'.fn = "upsert_author" -> arg'.it.aid \in cache.authors
              [] arg'.fn = "upsert_video" -> arg'.it.id \in cache.videos
              [] OTHER -> arg'.it.id \in cache.interactions

StoredOf == CASE arg'.fn = "upsert_author" -> {r \in Authors : r.authorID = arg'.it.aid}
              [] arg'.fn = "upsert_video" -> ExistingRow(Videos, arg'.it.id)
              [] OTHER -> ExistingRow(Interactions, arg'.it.id)

\* C31: an upsert of UpsertManager reports SKIP only when it was given a non-empty
\* snapshot; for a key of the identity set and no snapshot, a call that meets no
\* database error reports UPDATE, whatever the stored values are.
C31_SkipNeedsSnapshot ==
    [][ManagerCall =>
          /\ OutcomeOf = "SKIP" => Snapshot(StoredOf, arg'.snap) # {}
          /\ (KnownKey /\ Snapshot(StoredOf, arg'.snap) = {} /\ nfail' = nfail)
                => OutcomeOf = "UPDATE"]_vars

\* upsert_author was called without snapshot for a stored author whose name and avatar
\* equal the candidate's, and reported UPDATE
C31_Witness ==
    /\ arg.fn = "upsert_author" /\ ~arg.snap /\ results.author = "UPDATE"
    /\ \E r \in Authors : /\ r.authorID = arg.it.aid
                          /\ r.Name = arg.it.nick /\ r.avatar = arg.it.avatar

NoWrite(out) == out \in {"SKIP", "NO_CHANGE"}

\* C32: given the same stored Video row and the same candidate of its key, the upserts
\* of UpsertManager, etl_processor and etl_processor_scd2 all write or all do not,
\* whichever of author key, caption, duration, created_at or url differs.
C32_VersionersAgree ==
    arg.fn = "upsert_video" /\ impl = "versioners" =>
        /\ NoWrite(arg.manager) <=> NoWrite(arg.v1)
        /\ NoWrite(arg.v1) <=> NoWrite(arg.scd2)

\* what the three have in common: a candidate equal to the stored row is written by
\* none, a candidate with another caption or duration by all
C32_CommonFields ==
    arg.fn = "upsert_video" /\ impl = "versioners" =>
        /\ arg.candidate = arg.stored =>
              NoWrite(arg.manager) /\ NoWrite(arg.v1) /\ NoWrite(arg.scd2)
        /\ (\/ arg.candidate.TextContent # arg.stored.TextContent
            \/ arg.candidate.Duration # arg.stored.Duration) =>
              arg.manager = "UPDATE" /\ arg.v1 = "UPDATE" /\ arg.scd2 = "UPDATE"

----------------------------------------------------------------------------
(* Properties of the poller *)

Polling == impl = "poll"
Triggered == pc \in {"startup_job", "job"}

\* the service has ended, or it is not in job and a check would return False
Quiet ==
    \/ pc = "dead"
    \/ ~Triggered /\ ~check_new_crawl_data(control_log, RawJson, FALSE)

\* C34: poller quiescence.  With no new crawl file recorded, after finitely many runs of
\* job the check returns False for good and start_polling triggers job no more; also
\* when a recent SUCCESS crawl file is unreadable, invalid, empty or missing
C34_PollerQuiescence == <>[](Polling /\ Quiet)

\* every recent SUCCESS crawl file is in the storage directory and holds an object or
\* objects
Loadable ==
    \A f \in recent_crawls(control_log) : storage[f] \in {"object", "array"}

\* the poller does come to rest when each recent crawl file can be loaded
C34_QuiescentWhenLoadable ==
    <>[]Loadable => <>[]Quiet

\* a crawl file that yields no raw record has been through a run of job and the check
\* still asks for one
C34_StillTriggered ==
    /\ Polling /\ pc = "job" /\ LoadLog # <<>>
    /\ \E f \in recent_crawls(control_log) : storage[f] = "invalid"

----------------------------------------------------------------------------
(* Properties of ensure_date_dim_ready *)

EnsureCall == arg'.n = arg.n + 1 /\ arg'.fn = "ensure_date_dim_ready"

\* C35: ensure_date_dim_ready tries the connection at most 30 times and then exits with
\* failure, and it returns True only in a state where DateDim holds at least one row:
\* with an empty table and a CSV whose lines are all skipped it reports no readiness.
C35_ReadyMeansRows ==
    [][EnsureCall
          => /\ arg'.retry_count <= max_retries
             /\ arg'.down >= max_retries => arg'.ret = "exit"
             /\ arg'.ret = "True" => DateDim' # {}]_vars

\* the bound of the retries alone: no call tries more than max_retries connections, a
\* call whose connections all fail exits, and one that connects on the last try goes on
C35_RetryBound ==
    [][EnsureCall
          => /\ arg'.retry_count <= max_retries
             /\ arg'.down >= max_retries
                   => arg'.ret = "exit" /\ arg'.retry_count = max_retries
                        /\ DateDim' = DateDim
             /\ arg'.down < max_retries => arg'.retry_count = arg'.down + 1]_vars

\* readiness was reported over a table that a file of skipped lines has left empty
C35_ReadyAndEmpty ==
    /\ arg.fn = "ensure_date_dim_ready" /\ arg.ret = "True" /\ DateDim = {}
    /\ arg.file # <<>>

----------------------------------------------------------------------------
(* Properties of BatchFetcher *)

\* C36: BatchFetcher never raises on a database Error.  Each of the three existence
\* queries that fails contributes the empty set, fetch_all still returns three sets (the
\* other two hold the keys of their tables), and the batch then treats every key of that
\* entity type as absent: an upsert given that empty set never reports SKIP or UPDATE.
C36_FetchFailsToEmpty ==
    [][/\ (arg'.n = arg.n + 1 /\ arg'.fn = "fetch_all")
            => /\ cache'.authors = IF "authors" \in arg'.fail THEN {}
                                   ELSE {r.authorID : r \in Authors}
               /\ cache'.videos = IF "videos" \in arg'.fail THEN {}
                                  ELSE {r.videoID : r \in Videos}
               /\ cache'.interactions = IF "interactions" \in arg'.fail THEN {}
                                        ELSE {r.videoID : r \in Interactions}
               /\ UNCHANGED <<DbVars, Committed>>
       /\ (ManagerCall /\ ~KnownKey) => OutcomeOf \in {"INSERT", "ERROR"}]_vars

\* the query of the authors failed over a table that has a row, and the upsert that
\* followed was given the empty set for the key of that row
C36_Witness ==
    /\ impl = "um" /\ arg.fn = "upsert_author" /\ nfail = 1
    /\ cache.authors = {}
    /\ \E r \in Authors : r.authorID = arg.it.aid
    /\ results.author = "ERROR"

====
